---- MODULE Spec2Model ----
(***************************************************************************)
(* A model of optparse99.c: the type converter (strtox), the option        *)
(* executor and matcher, and the command tree walker (parse).              *)
(*                                                                         *)
(* C strings are sequences of one-character strings.  A string buffer may  *)
(* hold the element NUL where the code wrote '\0' into it; a C string that *)
(* starts at an offset of a buffer ends before the first NUL.              *)
(* Integers wider than TLC's own are sequences of 16-bit limbs, least      *)
(* significant limb first.                                                 *)
(***************************************************************************)
EXTENDS Integers, Sequences, FiniteSets, TLC

VARIABLES
    longBits,           \* width of long / unsigned long of the build (32 or 64)
    conv,               \* the type converter's call: input, target type, result
    strs,               \* string memory: one buffer per original argv entry
    given,              \* history: the strings as the caller passed them
    argv,               \* the caller's argv array: index -> buffer id, or NULL
    argc,               \* the caller's argc (*argc)
    args,               \* the global args pointer: NULL before the first parse
    args_index,         \* the global scan index
    optparse_main_cmd,  \* the command tree's root
    active_cmd,         \* the command whose scope is being parsed
    ignore_options,     \* parse()'s local flag, set by a stand-alone "--"
    exclusive_opts,     \* check_mutual_exclusivity()'s static table
    flags,              \* the flag destinations of the option descriptors
    storage,            \* the argument storage destinations
    calls,              \* option callbacks invoked so far, in order
    cmd_calls,          \* terminal command callbacks invoked so far, in order
    pc,                 \* "idle", "scan", "done" or "exit"
    err,                \* the fatal error that ended the run, or "none"
    role,               \* history: what the walker did with each original token
    executed,           \* history: every execute_option call, in order
    api_calls,          \* history: every optparse_shift/optparse_unshift call
    beyond,             \* the memory word that follows argv's terminator
    wild_write,         \* history: a write into argv landed outside the array
    heap,               \* history: every malloc'ed block and how often it was freed
    effects,            \* history: the executor's side effects, in order
    memory,             \* the number of blocks the allocator can hand out at a time
    conv_arg,           \* what execute_option's local conv_arg holds before it is assigned
    help,               \* print_usage's statics, the _parent links, and the help printed
    parses              \* history: the number of optparse_parse calls so far

vars == <<longBits, conv, strs, given, argv, argc, args, args_index, optparse_main_cmd,
          active_cmd, ignore_options, exclusive_opts, flags, storage, calls,
          cmd_calls, pc, err, role, executed, api_calls, beyond, wild_write,
          heap, effects, memory, conv_arg, help, parses>>

parserVars == <<strs, given, argv, argc, args, args_index, optparse_main_cmd,
                active_cmd, ignore_options, exclusive_opts, flags, storage,
                calls, cmd_calls, pc, err, role, executed, api_calls, beyond, wild_write,
                heap, effects, parses>>

----------------------------------------------------------------------------
(* Bounds of the model. *)

\* Number of 16-bit limbs of the integers the numerals are evaluated in.
WideLimbs == 6
\* Largest number of arguments after argv[0] in an initial argument vector.
MaxArgs == 3
\* Largest number of execute_option calls followed in one run.
MaxExecuted == 5
\* Largest number of characters of a list given to strtoarr on its own.
MaxListLen == 6

----------------------------------------------------------------------------
(* Characters and C strings. *)

NUL == "NUL"
NULL == -1
\* A pointer to a string that is no argument of the program (what the word
\* after argv's terminator may hold), and the mark of that word not read yet.
FOREIGN == NULL - 1
UNSEEN == NULL - 2
\* A NULL char pointer inside a descriptor (no long name, no argument name).
NoString == <<"NULL">>

\* strlen / the characters of the C string that starts at offset off (1-based).
RECURSIVE CStrFrom(_, _)
CStrFrom(buf, off) ==
    IF off > Len(buf) \/ buf[off] = NUL THEN <<>>
    ELSE <<buf[off]>> \o CStrFrom(buf, off + 1)

\* strchr(s, c): the 1-based position of the first c in s, 0 if there is none.
RECURSIVE StrChrFrom(_, _, _)
StrChrFrom(s, c, i) ==
    IF i > Len(s) THEN 0
    ELSE IF s[i] = c THEN i
    ELSE StrChrFrom(s, c, i + 1)

StrChr(s, c) == StrChrFrom(s, c, 1)

\* The character at 1-based offset i of a buffer; NUL at and after its end.
CharAt(buf, i) == IF i > Len(buf) THEN NUL ELSE buf[i]

----------------------------------------------------------------------------
(* Multi-limb arithmetic for long, unsigned long, long long. *)

LimbBase == 2^16
Limbs == 1..WideLimbs
BigZero == [i \in Limbs |-> 0]

\* a * m + d, limb by limb from limb i on with carry c (m, d below 2^15); the
\* carry out of the last limb is dropped.
RECURSIVE MulAddFrom(_, _, _, _)
MulAddFrom(a, m, c, i) ==
    IF i > Len(a) THEN <<>>
    ELSE <<(a[i] * m + c) % LimbBase>>
         \o MulAddFrom(a, m, (a[i] * m + c) \div LimbBase, i + 1)

BigMulAdd(a, m, d) == MulAddFrom(a, m, d, 1)

\* -1, 0, 1 as a < b, a = b, a > b.
RECURSIVE BigCmpFrom(_, _, _)
BigCmpFrom(a, b, i) ==
    IF i = 0 THEN 0
    ELSE IF a[i] < b[i] THEN -1
    ELSE IF a[i] > b[i] THEN 1
    ELSE BigCmpFrom(a, b, i - 1)

BigCmp(a, b) == BigCmpFrom(a, b, WideLimbs)

\* a - b for a >= b, limb by limb from limb i on with borrow c.
RECURSIVE SubFrom(_, _, _, _)
SubFrom(a, b, c, i) ==
    IF i > Len(a) THEN <<>>
    ELSE <<(a[i] - b[i] - c + LimbBase) % LimbBase>>
         \o SubFrom(a, b, IF a[i] - b[i] - c < 0 THEN 1 ELSE 0, i + 1)

BigSub(a, b) == SubFrom(a, b, 0, 1)

\* 2^k, and a mod 2^k, for k a multiple of 8.
Pow2(k) == [i \in Limbs |-> IF i = (k \div 16) + 1 THEN 2^(k % 16) ELSE 0]

BigModPow2(a, k) ==
    [i \in Limbs |->
        IF i <= k \div 16 THEN a[i]
        ELSE IF i = (k \div 16) + 1 THEN a[i] % (2^(k % 16))
        ELSE 0]

BigOne == [i \in Limbs |-> IF i = 1 THEN 1 ELSE 0]

\* A C integer value: sign and magnitude (zero is never negative).
IntVal(neg, mag) == [neg |-> neg /\ mag # BigZero, mag |-> mag]

IntZero == IntVal(FALSE, BigZero)

\* x < y on sign-magnitude values.
IntLess(x, y) ==
    IF x.neg # y.neg THEN x.neg
    ELSE BigCmp(x.mag, y.mag) = (IF x.neg THEN 1 ELSE -1)

\* The limits of a w-bit type: <limits.h>, <stdint.h>.
SignedMin(w) == IntVal(TRUE, Pow2(w - 1))
SignedMax(w) == IntVal(FALSE, BigSub(Pow2(w - 1), BigOne))
UnsignedMax(w) == IntVal(FALSE, BigSub(Pow2(w), BigOne))

\* The conversion (T) v to an unsigned w-bit type: the value modulo 2^w,
\* given m, the magnitude modulo 2^w.
WrapUnsigned(neg, m, w) ==
    IF neg /\ m # BigZero THEN IntVal(FALSE, BigSub(Pow2(w), m))
    ELSE IntVal(FALSE, m)

CastUnsigned(v, w) == WrapUnsigned(v.neg, BigModPow2(v.mag, w), w)

\* The conversion (T) v to a signed w-bit type, given u, v modulo 2^w: what
\* two's complement implementations define it to be.
WrapSigned(u, w) ==
    IF BigCmp(u.mag, Pow2(w - 1)) >= 0
    THEN IntVal(TRUE, BigSub(Pow2(w), u.mag))
    ELSE u

CastSigned(v, w) == WrapSigned(CastUnsigned(v, w), w)

----------------------------------------------------------------------------
(* strtol, strtoul, strtoll, strtoull with base 0 (ISO C 7.22.1.4). *)

AllDigits == <<"0", "1", "2", "3", "4", "5", "6", "7", "8", "9",
               "a", "b", "c", "d", "e", "f", "A", "B", "C", "D", "E", "F">>

\* The value of the digit at position pos of AllDigits; 99 for no digit.
DigitAt(pos) ==
    IF pos = 0 THEN 99 ELSE IF pos <= 16 THEN pos - 1 ELSE pos - 7

DigitValue(c) == DigitAt(StrChr(AllDigits, c))

IsSpace(c) == c \in {" ", "\t", "\n", "\f", "\r"}

\* The position of the first character at or after i that is not white space.
RECURSIVE SkipSpace(_, _)
SkipSpace(s, i) ==
    IF i <= Len(s) /\ IsSpace(s[i]) THEN SkipSpace(s, i + 1) ELSE i

\* Consume the digits of the base from position i on; acc is the value so far.
RECURSIVE Accumulate(_, _, _, _)
Accumulate(s, i, base, acc) ==
    IF i <= Len(s) /\ DigitValue(s[i]) < base
    THEN Accumulate(s, i + 1, base, BigMulAdd(acc, base, DigitValue(s[i])))
    ELSE [mag |-> acc, end |-> i]

\* The result of a scan of digits r that started at position start.  ok: a
\* conversion was performed; end: the position endptr is left at (1, the start
\* of the string, if no conversion was performed).
NumeralResult(r, start, neg) ==
    IF r.end = start
    THEN [ok |-> FALSE, val |-> IntZero, end |-> 1]
    ELSE [ok |-> TRUE, val |-> IntVal(neg, r.mag), end |-> r.end]

ParseDigits(s, start, base, neg) ==
    NumeralResult(Accumulate(s, start, base, BigZero), start, neg)

\* The optional prefix at position i: 0x or 0X before a hex digit, or 0.
ParsePrefix(s, i, neg) ==
    IF i + 2 <= Len(s) /\ s[i] = "0" /\ s[i + 1] \in {"x", "X"}
       /\ DigitValue(s[i + 2]) < 16
    THEN ParseDigits(s, i + 2, 16, neg)
    ELSE IF i <= Len(s) /\ s[i] = "0"
    THEN ParseDigits(s, i, 8, neg)
    ELSE ParseDigits(s, i, 10, neg)

\* The optional sign at position i.
ParseSign(s, i) ==
    IF i <= Len(s) /\ s[i] \in {"+", "-"}
    THEN ParsePrefix(s, i + 1, s[i] = "-")
    ELSE ParsePrefix(s, i, FALSE)

\* The subject sequence of s: white space, sign, prefix, digits.
ParseNumeral(s) == ParseSign(s, SkipSpace(s, 1))

\* A value that is not representable is replaced by the nearest limit and
\* errno is set to ERANGE.
ClampSigned(n, bits) ==
    IF ~n.ok THEN [val |-> IntZero, end |-> 1, erange |-> FALSE]
    ELSE IF IntLess(SignedMax(bits), n.val)
    THEN [val |-> SignedMax(bits), end |-> n.end, erange |-> TRUE]
    ELSE IF IntLess(n.val, SignedMin(bits))
    THEN [val |-> SignedMin(bits), end |-> n.end, erange |-> TRUE]
    ELSE [val |-> n.val, end |-> n.end, erange |-> FALSE]

\* A magnitude above the maximum is replaced by the maximum and errno is set to
\* ERANGE; otherwise a minus sign negates the magnitude in the unsigned type.
ClampUnsigned(n, bits) ==
    IF ~n.ok THEN [val |-> IntZero, end |-> 1, erange |-> FALSE]
    ELSE IF BigCmp(n.val.mag, UnsignedMax(bits).mag) = 1
    THEN [val |-> UnsignedMax(bits), end |-> n.end, erange |-> TRUE]
    ELSE [val |-> CastUnsigned(n.val, bits), end |-> n.end, erange |-> FALSE]

\* strtol (bits = width of long) and strtoll (bits = 64).
Strtol(s, bits) == ClampSigned(ParseNumeral(s), bits)

\* strtoul (bits = width of long) and strtoull (bits = 64).
Strtoul(s, bits) == ClampUnsigned(ParseNumeral(s), bits)

----------------------------------------------------------------------------
(* strtox: the type converter. *)

DATA_TYPE_STR == "STR"
NarrowSigned == {"SHRT", "INT", "INT8", "INT16", "INT32"}
NarrowUnsigned == {"USHRT", "UINT", "UINT8", "UINT16", "UINT32"}
WideSigned == {"LONG", "LLONG", "INT64"}
WideUnsigned == {"ULONG", "ULLONG", "UINT64"}
IntegerTypes == NarrowSigned \cup NarrowUnsigned \cup WideSigned \cup WideUnsigned
CharTypes == {"CHAR", "SCHAR", "UCHAR"}
DATA_TYPE_BOOL == "BOOL"

\* The width in bits of an integer data type; lb is the width of long.
TypeBits(t, lb) ==
    CASE t \in {"INT8", "UINT8"} -> 8
      [] t \in {"SHRT", "USHRT", "INT16", "UINT16"} -> 16
      [] t \in {"INT", "UINT", "INT32", "UINT32"} -> 32
      [] t \in {"LONG", "ULONG"} -> lb
      [] OTHER -> 64

\* The width of the library function's result: long for the narrow cases and
\* for long itself, long long for the 64-bit cases.
LibraryBits(t, lb) ==
    IF t \in {"LLONG", "ULLONG", "INT64", "UINT64"} THEN 64 ELSE lb

\* A converted value as strtox leaves it in *x.
XNone == [tag |-> "none", int |-> IntZero, str |-> <<>>]
XInt(v) == [tag |-> "int", int |-> v, str |-> <<>>]
XStr(s) == [tag |-> "str", int |-> IntZero, str |-> s]
\* A character (NUL for the terminator of an empty string), and a _Bool (0 or 1).
XChar(c) == [tag |-> "char", int |-> IntZero, str |-> <<c>>]
XBool(b) == [tag |-> "bool", int |-> IntVal(FALSE, IF b = 0 THEN BigZero ELSE BigOne),
             str |-> <<>>]

\* The final test of strtox on endptr and errno.
StrtoxReturn(s, hasEnd, end, erange) ==
    IF hasEnd /\ (end = 1 \/ end <= Len(s)) THEN 1
    ELSE IF erange THEN -1
    ELSE 0

\* errno == ERANGE after a signed case: set by strtol, or by the narrow cases'
\* test of the result against the limits of the type.
SignedErange(r, w, narrow) ==
    r.erange \/ (narrow /\ (IntLess(r.val, SignedMin(w)) \/ IntLess(SignedMax(w), r.val)))

\* The signed cases: r is strtol's or strtoll's result; the narrow cases test
\* it against the limits of the type, then it is cast into *x.
StrtoxSigned(s, r, w, narrow) ==
    [ret |-> StrtoxReturn(s, TRUE, r.end, SignedErange(r, w, narrow)),
     x |-> XInt(CastSigned(r.val, w))]

\* The unsigned cases: r is strtoul's or strtoull's result.
StrtoxUnsigned(s, r, w, narrow) ==
    [ret |-> StrtoxReturn(s, TRUE, r.end,
                r.erange \/ (narrow /\ IntLess(UnsignedMax(w), r.val))),
     x |-> XInt(CastUnsigned(r.val, w))]

\* The character cases: errno is set if more than one character is given, and
\* str[0] (the terminator, for the empty string) is stored.
StrtoxChar(s) ==
    [ret |-> StrtoxReturn(s, FALSE, 0, Len(s) > 1),
     x |-> XChar(IF s = <<>> THEN NUL ELSE s[1])]

UpperCase == <<"A", "B", "C", "D", "E", "F", "G", "H", "I", "J", "K", "L", "M",
               "N", "O", "P", "Q", "R", "S", "T", "U", "V", "W", "X", "Y", "Z">>
LowerCase == <<"a", "b", "c", "d", "e", "f", "g", "h", "i", "j", "k", "l", "m",
               "n", "o", "p", "q", "r", "s", "t", "u", "v", "w", "x", "y", "z">>

\* A variant of tolower that leaves every character as it is.
KeepCase(c) == c

\* tolower(c).
ToLower(c) == IF StrChr(UpperCase, c) = 0 THEN c ELSE LowerCase[StrChr(UpperCase, c)]

\* temp: the copy of str with every character lowered.
RECURSIVE Lowered(_)
Lowered(s) == IF s = <<>> THEN <<>> ELSE <<ToLower(Head(s))>> \o Lowered(Tail(s))

TrueWords == {<<"t", "r", "u", "e">>, <<"e", "n", "a", "b", "l", "e", "d">>,
              <<"y", "e", "s">>, <<"o", "n">>}
FalseWords == {<<"f", "a", "l", "s", "e">>, <<"d", "i", "s", "a", "b", "l", "e", "d">>,
               <<"n", "o">>, <<"o", "f", "f">>}

\* The last branch of the boolean case: inner is what the nested
\* strtox(str, x, DATA_TYPE_INT) returned and left in *x, erange is errno ==
\* ERANGE after it.  Its return value is stored as the boolean if it is 0 or
\* 1; otherwise endptr is set to str.
StrtoxBoolNumber(s, inner, erange) ==
    IF inner.ret \in {0, 1}
    THEN [ret |-> StrtoxReturn(s, FALSE, 0, erange), x |-> XBool(inner.ret)]
    ELSE [ret |-> StrtoxReturn(s, TRUE, 1, erange), x |-> inner.x]

\* The boolean case; temp is the lowered copy, r is strtol's result for str.
StrtoxBool(s, temp, r, w) ==
    IF temp \in TrueWords THEN [ret |-> StrtoxReturn(s, FALSE, 0, FALSE), x |-> XBool(1)]
    ELSE IF temp \in FalseWords
    THEN [ret |-> StrtoxReturn(s, FALSE, 0, FALSE), x |-> XBool(0)]
    ELSE StrtoxBoolNumber(s, StrtoxSigned(s, r, w, TRUE), SignedErange(r, w, TRUE))

\* strtox(str, x, data_type) for a non-NULL str: the return value and *x.
Strtox(s, t, lb) ==
    CASE t = DATA_TYPE_STR ->
            [ret |-> StrtoxReturn(s, FALSE, 0, FALSE), x |-> XStr(s)]
      [] t \in CharTypes -> StrtoxChar(s)
      [] t = DATA_TYPE_BOOL ->
            StrtoxBool(s, Lowered(s), Strtol(s, LibraryBits("INT", lb)), TypeBits("INT", lb))
      [] t \in NarrowSigned \cup WideSigned ->
            StrtoxSigned(s, Strtol(s, LibraryBits(t, lb)), TypeBits(t, lb),
                         t \in NarrowSigned)
      [] t \in NarrowUnsigned \cup WideUnsigned ->
            StrtoxUnsigned(s, Strtoul(s, LibraryBits(t, lb)), TypeBits(t, lb),
                           t \in NarrowUnsigned)

----------------
(* Option and command descriptors (struct optparse_opt, struct optparse_cmd). *)

\* The size of exclusive_opts: a configuration macro of optparse99.h, whose
\* default is not part of optparse99.c.  The descriptors below use group 1.
OPTPARSE_MUTUALLY_EXCLUSIVE_GROUPS_MAX == 8
DATA_TYPE_NONE == "NONE"

Opt(id, short, long, argname, type, flag, flagtype, store, fn, fntype, group) ==
    [id |-> id, short_name |-> short, long_name |-> long, arg_name |-> argname,
     arg_data_type |-> type, flag |-> flag, flag_type |-> flagtype,
     arg_storage |-> store, function |-> fn, function_type |-> fntype,
     group |-> group, arg_delim |-> NoString, arg_storage_size |-> "none"]

\* The option descriptors of the program under analysis.
Options ==
    [h |-> Opt("h", "h", <<"h","e","l","p">>, NoString, DATA_TYPE_NONE,
               "fh", "FLAG_TYPE_SET_TRUE", "none", "none", "FUNCTION_TYPE_AUTO", 0),
     a |-> Opt("a", "a", NoString, NoString, DATA_TYPE_NONE,
               "fa", "FLAG_TYPE_SET_TRUE", "none", "none", "FUNCTION_TYPE_AUTO", 0),
     b |-> Opt("b", "b", <<"b","e","e">>, <<"V","A","L","U","E">>, DATA_TYPE_STR,
               "none", "FLAG_TYPE_SET_TRUE", "sb", "none", "FUNCTION_TYPE_AUTO", 0),
     v |-> Opt("v", "v", <<"v","e","r","b","o","s","e">>, NoString, DATA_TYPE_NONE,
               "fv", "FLAG_TYPE_INCREMENT", "none", "none", "FUNCTION_TYPE_AUTO", 0),
     o |-> Opt("o", "o", <<"o","p","t">>, <<"[","A","R","G","]">>, DATA_TYPE_STR,
               "fo", "FLAG_TYPE_SET_TRUE", "so", "none", "FUNCTION_TYPE_AUTO", 0),
     x |-> Opt("x", "x", <<"e","x">>, NoString, DATA_TYPE_NONE,
               "fx", "FLAG_TYPE_SET_TRUE", "none", "cb_plain", "FUNCTION_TYPE_VOID", 1),
     y |-> Opt("y", "y", <<"w","h","y">>, <<"Y">>, DATA_TYPE_STR,
               "fy", "FLAG_TYPE_SET_TRUE", "sy", "cb_plain", "FUNCTION_TYPE_OARG", 1),
     n |-> Opt("n", "n", <<"n","u","m">>, <<"N">>, "INT8",
               "none", "FLAG_TYPE_SET_TRUE", "sn", "cb_plain", "FUNCTION_TYPE_AUTO", 0),
     s |-> Opt("s", "s", NoString, NoString, DATA_TYPE_NONE,
               "none", "FLAG_TYPE_SET_TRUE", "none", "cb_shift", "FUNCTION_TYPE_VOID", 0),
     u |-> Opt("u", "u", NoString, NoString, DATA_TYPE_NONE,
               "none", "FLAG_TYPE_SET_TRUE", "none", "cb_unshift", "FUNCTION_TYPE_VOID", 0),
     p |-> Opt("p", "p", NoString, NoString, DATA_TYPE_NONE,
               "none", "FLAG_TYPE_SET_TRUE", "none", "cb_peek", "FUNCTION_TYPE_VOID", 0),
     q |-> Opt("q", "q", <<"q","u","i","e","t">>, NoString, DATA_TYPE_NONE,
               "fq", "FLAG_TYPE_DECREMENT", "none", "none", "FUNCTION_TYPE_AUTO", 0),
     t |-> Opt("t", "t", <<"i","n","t">>, <<"T">>, "INT8",
               "ft", "FLAG_TYPE_SET_TRUE", "st", "cb_plain", "FUNCTION_TYPE_AUTO", 0),
     l |-> [Opt("l", "l", <<"l","i","s","t">>, <<"L">>, "INT8",
                "fl", "FLAG_TYPE_SET_TRUE", "sl", "cb_plain", "FUNCTION_TYPE_AUTO", 0)
              EXCEPT !.arg_delim = <<",">>, !.arg_storage_size = "zl"],
     m |-> [Opt("m", "m", NoString, <<"M">>, DATA_TYPE_STR,
                "none", "FLAG_TYPE_SET_TRUE", "none", "cb_plain", "FUNCTION_TYPE_AUTO", 0)
              EXCEPT !.arg_delim = <<",", ";">>],
     r |-> [Opt("r", "r", <<"r","a","w">>, <<"R">>, DATA_TYPE_STR,
                "none", "FLAG_TYPE_SET_TRUE", "none", "cb_plain",
                "FUNCTION_TYPE_OARG_ARRAY", 0)
              EXCEPT !.arg_delim = <<",">>],
     k |-> [Opt("k", "k", <<"k","e","e","p">>, <<"[","K","]">>, DATA_TYPE_STR,
                "none", "FLAG_TYPE_SET_TRUE", "sk", "cb_plain", "FUNCTION_TYPE_OARG", 0)
              EXCEPT !.arg_delim = <<",">>],
     w |-> Opt("w", "w", <<"w","i","d","e">>, <<"[","N","]">>, "INT8",
               "none", "FLAG_TYPE_SET_TRUE", "none", "cb_plain", "FUNCTION_TYPE_AUTO", 0)]

FlagNames == {"fh", "fa", "fv", "fo", "fx", "fy", "fq", "ft", "fl"}
StorageNames == {"sb", "so", "sy", "sn", "st", "sl", "zl", "sk"}

\* The command tree: prog -> remote -> add.  options and subcommands are the
\* descriptors' arrays; <<"NULL">> stands for a NULL array pointer.
Commands ==
    [prog   |-> [name |-> <<"p","r","o","g">>, options |-> <<"h","b">>,
                 subcommands |-> <<"remote">>, function |-> "none"],
     remote |-> [name |-> <<"r","e","m","o","t","e">>, options |-> NoString,
                 subcommands |-> <<"add">>, function |-> "cb_plain"],
     add    |-> [name |-> <<"a","d","d">>,
                 options |-> <<"a","b","v","o","x","y","n","s","u","q","t","l","m","r","k","p","w">>,
                 subcommands |-> NoString, function |-> "cb_plain"]]

\* What the callbacks of the program under analysis do with the parse cursor.
CallbackProgram(fn) ==
    CASE fn = "cb_shift" -> <<"shift">>
      [] fn = "cb_unshift" -> <<"unshift">>
      [] fn = "cb_peek" -> <<"shift", "unshift">>
      [] OTHER -> <<>>

----------------------------------------------------------------------------
(* print_help: the help text of a command.  H is the record of print_usage's
   static parents_initialized, the global subcmd_depth, the _parent member of
   every command descriptor, and the texts printed so far. *)

HelpIdle ==
    [parents_initialized |-> 0, subcmd_depth |-> 0,
     parent |-> [c \in DOMAIN Commands |-> "none"], printed |-> <<>>]

\* initialize_subcommand_parents(cmd, depth): the links after the call, and
\* its return value.  InitializeEach is its loop over the subcommands, R the
\* links and max_depth so far.
RECURSIVE initialize_subcommand_parents(_, _, _)
RECURSIVE InitializeEach(_, _, _, _)
KeepMax(max_depth, r) ==
    [parent |-> r.parent, ret |-> IF r.ret > max_depth THEN r.ret ELSE max_depth]

InitializeEach(R, cmd, subcommands, depth) ==
    IF subcommands = <<>> THEN R
    ELSE InitializeEach(
            KeepMax(R.ret,
                    initialize_subcommand_parents(
                        [R.parent EXCEPT ![Head(subcommands)] = cmd],
                        Head(subcommands), depth + 1)),
            cmd, Tail(subcommands), depth)

initialize_subcommand_parents(parent, cmd, depth) ==
    IF Commands[cmd].subcommands # NoString
    THEN InitializeEach([parent |-> parent, ret |-> 0], cmd,
                        Commands[cmd].subcommands, depth)
    ELSE [parent |-> parent, ret |-> depth]

\* build_cmd_array: the names of the command's parents, the root first, and
\* of the command itself.
RECURSIVE build_cmd_array(_, _)
build_cmd_array(parent, cmd) ==
    IF cmd = "none" THEN <<>>
    ELSE Append(build_cmd_array(parent, parent[cmd]), Commands[cmd].name)

\* The first lines of print_usage: the parent links are set once per process.
InitializeParents(H, main) ==
    IF H.parents_initialized = 0
    THEN [H EXCEPT !.parents_initialized = 1,
                   !.parent = initialize_subcommand_parents(H.parent, main, 1).parent,
                   !.subcmd_depth = initialize_subcommand_parents(H.parent, main, 1).ret]
    ELSE H

\* What print_help prints for cmd, given the parent links: the command names
\* of the usage line, then the option and subcommand tables of the descriptor.
HelpText(parent, cmd) ==
    [names |-> build_cmd_array(parent, cmd),
     options |-> Commands[cmd].options,
     subcommands |-> Commands[cmd].subcommands]

\* A variant of print_usage that prints the command names before it sets the
\* parent links.
UsageBeforeParents(H, cmd, main) ==
    [InitializeParents(H, main) EXCEPT
       !.printed = Append(@, [cmd |-> cmd, text |-> HelpText(H.parent, cmd)])]

\* print_help(stream, cmd, exit_status, noExit) with noExit true, through
\* print_usage.
print_usage(H, cmd, main) ==
    [InitializeParents(H, main) EXCEPT
       !.printed = Append(@, [cmd |-> cmd,
                              text |-> HelpText(InitializeParents(H, main).parent, cmd)])]

----------------------------------------------------------------------------
(* The parser's state as one record, threaded through the functions below. *)

NoError == [kind |-> "none", info |-> <<>>]

\* A variant that prints the message and returns to its caller.
ErrorAndReturn(S, kind, info) ==
    [S EXCEPT !.err = [kind |-> kind, info |-> info]]

\* optparse_error: the message is printed and the process exits with
\* EXIT_FAILURE.  History: the exit is the last of the run's effects.
Fatal(S, kind, info) ==
    [S EXCEPT !.pc = "exit", !.err = [kind |-> kind, info |-> info],
              !.effects = Append(@, [exec |-> Len(S.executed), kind |-> "exit",
                                     val |-> XNone])]

\* The index of the terminator slot the caller allocated: argv has slots 0..end.
ArgvEnd(a) == Cardinality(DOMAIN a) - 1

\* args[i].  Slot end+1 is the word after the array, whose value is not the
\* program's to know (oob is the value this run finds there); later words are 0.
ArgsAt(S, i, oob) ==
    IF i <= ArgvEnd(S.argv) THEN S.argv[i]
    ELSE IF i = ArgvEnd(S.argv) + 1
    THEN (IF S.beyond = UNSEEN THEN oob ELSE S.beyond)
    ELSE NULL

\* The state after args[i] was read.
ReadArgs(S, i, oob) ==
    IF i = ArgvEnd(S.argv) + 1 /\ S.beyond = UNSEEN
    THEN [S EXCEPT !.beyond = oob]
    ELSE S

\* History: the walker's treatment of the token behind pointer p.
SetRole(S, p, r) ==
    IF p \in DOMAIN S.role THEN [S EXCEPT !.role[p] = r] ELSE S

\* An option-argument: a pointer into buffer p at 1-based offset off.
NoArg == [p |-> NULL, off |-> 0]
ArgString(S, arg) ==
    IF arg = NoArg THEN NoString ELSE CStrFrom(S.strs[arg.p], arg.off)

----------------------------------------------------------------------------
(* optparse_shift and optparse_unshift, called while a parse is active. *)

\* History: a call of the mid-parse API and what it returned.
LogApi(S, op, ret, from) ==
    [S EXCEPT !.api_calls = Append(@, [op |-> op, ret |-> ret, from |-> from,
                                       to |-> S.args_index, args |-> S.args,
                                       argv |-> S.argv])]

optparse_shift(S, oob) ==
    IF S.args = NULL THEN LogApi(S, "shift", NULL, S.args_index)
    ELSE IF ArgsAt(S, S.args_index, oob) = NULL
    THEN LogApi(ReadArgs(S, S.args_index, oob), "shift", NULL, S.args_index)
    ELSE LogApi([SetRole(ReadArgs(S, S.args_index + 1, oob),
                         ArgsAt(S, S.args_index + 1, oob), "shifted")
                   EXCEPT !.args_index = S.args_index + 1],
                "shift", ArgsAt(S, S.args_index + 1, oob), S.args_index)

\* A variant that never moves the index.
UnshiftInPlace(S, oob) == LogApi(S, "unshift", NULL, S.args_index)

optparse_unshift(S, oob) ==
    IF S.args = NULL \/ ~(S.args_index > 0)
    THEN LogApi(S, "unshift", NULL, S.args_index)
    ELSE LogApi([ReadArgs(S, S.args_index - 1, oob) EXCEPT
                   !.args_index = S.args_index - 1],
                "unshift", ArgsAt(S, S.args_index - 1, oob), S.args_index)

\* A callback's calls of the mid-parse API, in order.
RECURSIVE RunCallback(_, _, _)
RunCallback(S, prog, oob) ==
    IF prog = <<>> THEN S
    ELSE IF Head(prog) = "shift" THEN RunCallback(optparse_shift(S, oob), Tail(prog), oob)
    ELSE RunCallback(optparse_unshift(S, oob), Tail(prog), oob)

----------------------------------------------------------------------------
(* execute_option: flag, conversion, storage, callback. *)

\* History: a side effect of the execute_option call in progress.
Effect(S, kind, val) ==
    [S EXCEPT !.effects = Append(@, [exec |-> Len(S.executed), kind |-> kind,
                                     val |-> val])]

\* Set option's flag.
SetFlag(S, opt) ==
    IF opt.flag = "none" THEN S
    ELSE Effect(
           CASE opt.flag_type = "FLAG_TYPE_SET_TRUE" -> [S EXCEPT !.flags[opt.flag] = 1]
             [] opt.flag_type = "FLAG_TYPE_SET_FALSE" -> [S EXCEPT !.flags[opt.flag] = 0]
             [] opt.flag_type = "FLAG_TYPE_INCREMENT" -> [S EXCEPT !.flags[opt.flag] = @ + 1]
             [] opt.flag_type = "FLAG_TYPE_DECREMENT" -> [S EXCEPT !.flags[opt.flag] = @ - 1],
           "flag", XNone)

\* Type-convert the option-argument: what strtox returns and leaves in
\* conv_arg.  Without an argument, or for an option without a data type,
\* strtox is not called and conv_arg keeps the indeterminate value it has on
\* entry.  XUninit stands for it where no option reads it.
XUninit == [tag |-> "uninit", int |-> IntZero, str |-> <<>>]
Conversion(S, opt, arg, lb) ==
    IF arg # NoArg /\ opt.arg_delim = NoString /\ opt.arg_data_type # DATA_TYPE_NONE
    THEN Strtox(ArgString(S, arg), opt.arg_data_type, lb)
    ELSE [ret |-> 0, x |-> S.conv_arg]

\* An array of n items as a callback or a storage destination sees it, and a
\* size_t.
XArray(items, n) == [tag |-> "array", int |-> IntZero, str |-> SubSeq(items, 1, n)]
XSize(n) == XInt(IntVal(FALSE, BigMulAdd(BigZero, 1, n)))

\* A variant of the callers' test of malloc's result that goes on.
IgnoreOutOfMemory(S, kind, n) ==
    [S EXCEPT !.heap = Append(@, [kind |-> kind, exec |-> Len(S.executed),
                                  cap |-> n, frees |-> 0, held |-> "none"])]

\* malloc of n elements and the caller's test of its result: malloc returns
\* NULL when as many blocks as the allocator can hand out are allocated and
\* not freed, and the caller ends the parse; otherwise the new block is the
\* last of the heap.  free(ptr); free(NULL) does nothing.
Malloc(S, kind, n) ==
    IF S.pc = "exit" THEN S
    ELSE IF Cardinality({b \in DOMAIN S.heap : S.heap[b].frees = 0}) >= S.memory
    THEN Fatal(S, "OutOfMemory", <<>>)
    ELSE [S EXCEPT !.heap = Append(@, [kind |-> kind, exec |-> Len(S.executed),
                                       cap |-> n, frees |-> 0, held |-> "none"])]
Free(S, ptr) ==
    IF ptr = NULL THEN S
    ELSE Effect([S EXCEPT !.heap[ptr].frees = @ + 1], "free", XSize(ptr))
\* History: the pointer to a block was written to a storage destination.
Hold(S, ptr, dest) ==
    IF ptr = NULL THEN S ELSE [S EXCEPT !.heap[ptr].held = dest]

\* strtoarr's temporary array size: 1 plus the delimiter characters of the string.
RECURSIVE CountDelims(_, _, _)
CountDelims(buf, i, delim) ==
    IF CharAt(buf, i) = NUL THEN 1
    ELSE (IF StrChr(delim, buf[i]) # 0 THEN 1 ELSE 0) + CountDelims(buf, i + 1, delim)

\* strspn (in = TRUE) and strcspn (in = FALSE) as strtok uses them: the first
\* offset from i on that holds the terminator or a character that is not
\* (that is) one of delim.
RECURSIVE Span(_, _, _, _)
Span(buf, i, delim, in) ==
    IF CharAt(buf, i) = NUL \/ (StrChr(delim, buf[i]) # 0) # in THEN i
    ELSE Span(buf, i + 1, delim, in)

\* What realloc(ptr, 0) does: frees the block and returns NULL, or returns a
\* block of no elements.
ReallocZero == {"null", "block"}

\* strtoarr's realloc to the final size (taken to succeed for a size above 0),
\* unless the loop before it has ended the parse.
Realloc(S) ==
    IF S.pc = "exit" THEN S
    ELSE IF S.size = 0 /\ S.realloc0 = "null"
    THEN [Free(S, S.array.ptr) EXCEPT !.array.ptr = NULL]
    ELSE [S EXCEPT !.heap[S.array.ptr].cap = S.size]

\* A variant of the loop's error branch that skips the item and goes on.
SkipBadItem(S, cv, item) == S

\* The error branch of strtoarr's loop: the array is freed and the parse ends.
RejectItem(S, cv, item) ==
    Fatal(Free(S, S.array.ptr),
          IF cv.ret = 1 THEN "ListItemNotValid" ELSE "ListItemOutOfRange", <<item>>)

\* strtoarr's loop.  strtok skips the delimiters from the saved position i
\* on; the token that starts at start ends at stop, where strtok writes a
\* terminator over the delimiter; it is converted into the next slot.
RECURSIVE StrtokLoop(_, _, _, _, _, _)
ConvertItem(S, p, next, cv, item, delim, type, lb) ==
    IF cv.ret # 0 THEN RejectItem(Effect(S, "item", XStr(item)), cv, item)
    ELSE StrtokLoop([Effect(S, "item", XStr(item))
                       EXCEPT !.array.items = Append(@, cv.x), !.size = @ + 1],
                    p, next, delim, type, lb)

StrtokCut(S, p, start, stop, delim, type, lb) ==
    ConvertItem(IF CharAt(S.strs[p], stop) = NUL THEN S
                ELSE [S EXCEPT !.strs[p][stop] = NUL],
                p, IF CharAt(S.strs[p], stop) = NUL THEN stop ELSE stop + 1,
                Strtox(SubSeq(S.strs[p], start, stop - 1), type, lb),
                SubSeq(S.strs[p], start, stop - 1), delim, type, lb)

StrtokItem(S, p, start, delim, type, lb) ==
    IF CharAt(S.strs[p], start) = NUL THEN S
    ELSE StrtokCut(S, p, start, Span(S.strs[p], start, delim, FALSE), delim, type, lb)

\* A variant of the loop whose strtok returns the empty items too.
StrtokEveryItem(S, p, i, delim, type, lb) == StrtokItem(S, p, i, delim, type, lb)

StrtokLoop(S, p, i, delim, type, lb) ==
    IF S.pc = "exit" THEN S
    ELSE StrtokItem(S, p, Span(S.strs[p], i, delim, TRUE), delim, type, lb)

\* strtoarr(string, &array, delim, data_type): S.array is *array, S.size the
\* return value.  kind tells the blocks of the heap's history apart.
strtoarr(S, string, delim, type, lb, kind) ==
    IF string = NoArg \/ delim = NoString
    THEN [S EXCEPT !.array = [ptr |-> NULL, items |-> <<>>], !.size = 0]
    ELSE Realloc(StrtokLoop(
            [Malloc(S, kind, CountDelims(S.strs[string.p], string.off, delim))
               EXCEPT !.array = [ptr |-> Len(S.heap) + 1, items |-> <<>>], !.size = 0],
            string.p, string.off, delim, type, lb))

\* The list branch of execute_option: the argument is copied for a callback
\* of style OARG, then converted into list_array.
\* A variant that makes no copy of the argument.
NoBackup(S, opt, arg) == S

BackupArg(S, opt, arg) ==
    IF opt.function # "none" /\ opt.function_type = "FUNCTION_TYPE_OARG"
    THEN [Malloc(S, "backup", Len(ArgString(S, arg)) + 1)
            EXCEPT !.oarg = [ptr |-> Len(S.heap) + 1, str |-> ArgString(S, arg)]]
    ELSE S

ListResult(S) ==
    IF S.pc = "exit" THEN S
    ELSE [S EXCEPT !.list_array = S.array, !.list_size = S.size]

ListConversion(S, opt, arg, lb) ==
    IF arg # NoArg /\ opt.arg_delim # NoString
    THEN ListResult(strtoarr(BackupArg(S, opt, arg), arg, opt.arg_delim,
                             opt.arg_data_type, lb, "list"))
    ELSE S

\* Store the (type-converted) option-argument; cv is the conversion's result.
StoreArg(S, opt, arg, cv) ==
    IF arg = NoArg \/ opt.arg_storage = "none" THEN S
    ELSE IF opt.arg_delim # NoString
    THEN Effect([Hold(S, S.list_array.ptr, opt.arg_storage)
                   EXCEPT !.storage[opt.arg_storage] =
                              XArray(S.list_array.items, S.list_size)],
                "storage", XNone)
    ELSE IF opt.arg_data_type = DATA_TYPE_STR
    THEN Effect([S EXCEPT !.storage[opt.arg_storage] = XStr(ArgString(S, arg))],
                "storage", XNone)
    ELSE IF opt.arg_data_type = DATA_TYPE_NONE THEN S
    ELSE Effect([S EXCEPT !.storage[opt.arg_storage] = cv.x], "storage", XNone)

\* Store the storage size.
StoreSize(S, opt) ==
    IF opt.arg_delim # NoString /\ opt.arg_storage_size # "none"
    THEN [S EXCEPT !.storage[opt.arg_storage_size] = XSize(S.list_size)]
    ELSE S

\* The style the switch on function_type ends in.
CallStyle(opt) ==
    IF opt.function_type = "FUNCTION_TYPE_AUTO"
    THEN (IF opt.arg_name # NoString
          THEN (IF opt.arg_delim # NoString THEN "FUNCTION_TYPE_TARG_ARRAY"
                ELSE "FUNCTION_TYPE_TARG")
          ELSE "FUNCTION_TYPE_VOID")
    ELSE opt.function_type

\* The argument the callback is called with.
CallValue(S, opt, arg, cv) ==
    CASE CallStyle(opt) = "FUNCTION_TYPE_VOID" -> XNone
      [] CallStyle(opt) = "FUNCTION_TYPE_OARG" ->
            IF S.oarg.ptr = NULL THEN XStr(ArgString(S, arg)) ELSE XStr(S.oarg.str)
      [] CallStyle(opt) = "FUNCTION_TYPE_TARG" ->
            IF opt.arg_data_type = DATA_TYPE_STR THEN XStr(ArgString(S, arg))
            ELSE cv.x
      [] CallStyle(opt) = "FUNCTION_TYPE_OARG_ARRAY" -> XArray(S.array.items, S.size)
      [] CallStyle(opt) = "FUNCTION_TYPE_TARG_ARRAY" ->
            XArray(S.list_array.items, S.list_size)

\* The call itself: it is recorded, then the callback runs.
Call(S, opt, arg, cv, oob) ==
    RunCallback(
        Effect([S EXCEPT !.calls = Append(@, [opt |-> opt.id, style |-> CallStyle(opt),
                                             val |-> CallValue(S, opt, arg, cv)])],
               "callback", CallValue(S, opt, arg, cv)),
        CallbackProgram(opt.function), oob)

FreeArray(S) == Free(S, S.array.ptr)

\* Call option's function.  The style OARG_ARRAY splits oarg, which is arg,
\* into an array of its own first and frees that array after the call.
CallFunction(S, opt, arg, cv, oob) ==
    IF opt.function = "none" THEN S
    ELSE IF CallStyle(opt) = "FUNCTION_TYPE_OARG_ARRAY"
    THEN FreeArray(Call(strtoarr(S, arg, opt.arg_delim, DATA_TYPE_STR, longBits, "raw"),
                        opt, arg, cv, oob))
    ELSE Call(S, opt, arg, cv, oob)

\* A variant of the clean-up that frees nothing.
NoCleanup(S, opt) == S

\* List-related clean-up.
Cleanup(S, opt) ==
    Free(IF opt.arg_delim # NoString /\ opt.arg_storage = "none"
         THEN Free(S, S.list_array.ptr) ELSE S,
         S.oarg.ptr)

\* A variant that calls the function before it stores the argument.
CallThenStore(S, opt, arg, cv, oob) ==
    IF S.pc = "exit" THEN S
    ELSE IF cv.ret = 1 THEN Fatal(S, "ArgumentNotValid", <<opt.id>>)
    ELSE IF cv.ret = -1 THEN Fatal(S, "ValueOutOfRange", <<opt.id>>)
    ELSE Cleanup(StoreSize(StoreArg(CallFunction(S, opt, arg, cv, oob), opt, arg, cv),
                           opt), opt)

\* execute_option after the flag was set and a list argument was converted: a
\* fatal error unless strtox returned 0, else the storage, the storage size,
\* the callback and the clean-up.
ConvertStoreCall(S, opt, arg, cv, oob) ==
    IF S.pc = "exit" THEN S
    ELSE IF cv.ret = 1 THEN Fatal(S, "ArgumentNotValid", <<opt.id>>)
    ELSE IF cv.ret = -1 THEN Fatal(S, "ValueOutOfRange", <<opt.id>>)
    ELSE Cleanup(CallFunction(StoreSize(StoreArg(S, opt, arg, cv), opt),
                              opt, arg, cv, oob), opt)

\* History: execute_option was entered for opt, matched in token tok at
\* offset c (0 for a long option), with the cursor on the token cur.
LogExecuted(S, opt, arg, tok, c, oob) ==
    [S EXCEPT !.executed = Append(@, [opt |-> opt.id, tok |-> tok, c |-> c,
                                      arg |-> ArgString(S, arg),
                                      argtok |-> arg.p,
                                      cur |-> ArgsAt(S, S.args_index, oob)]),
              !.list_array = [ptr |-> NULL, items |-> <<>>], !.list_size = 0,
              !.oarg = [ptr |-> NULL, str |-> NoString]]

\* execute_option(opt, arg).
execute_option(S, opt, arg, tok, c, lb, oob) ==
    ConvertStoreCall(ListConversion(SetFlag(LogExecuted(S, opt, arg, tok, c, oob), opt),
                                    opt, arg, lb),
                     opt, arg, Conversion(S, opt, arg, lb), oob)

----------------
(* check_mutual_exclusivity. *)

\* A variant that records and checks nothing.
NoExclusivityCheck(S, opt) == S

check_mutual_exclusivity(S, opt) ==
    IF opt.group > 0 /\ opt.group < OPTPARSE_MUTUALLY_EXCLUSIVE_GROUPS_MAX
    THEN IF S.exclusive_opts[opt.group] # "none"
         THEN Fatal(S, "MutuallyExclusive", <<S.exclusive_opts[opt.group], opt.id>>)
         ELSE [S EXCEPT !.exclusive_opts[opt.group] = opt.id]
    ELSE S

----------------------------------------------------------------------------
(* execute_long_option and execute_short_option: the option matcher. *)

\* The first descriptor of the table whose long name is the given name.
RECURSIVE FindLong(_, _)
FindLong(options, name) ==
    IF options = <<>> THEN "none"
    ELSE IF Options[Head(options)].long_name # NoString
            /\ Options[Head(options)].long_name = name
    THEN Head(options)
    ELSE FindLong(Tail(options), name)

\* The first descriptor of the table whose short name is the given character.
\* A variant that searches the descriptors of every command.
FindShortAnywhere(options, ch) ==
    IF \E id \in DOMAIN Options : Options[id].short_name = ch
    THEN CHOOSE id \in DOMAIN Options : Options[id].short_name = ch
    ELSE "none"

RECURSIVE FindShort(_, _)
FindShort(options, ch) ==
    IF options = <<>> THEN "none"
    ELSE IF Options[Head(options)].short_name = ch THEN Head(options)
    ELSE FindShort(Tail(options), ch)

\* A variant that ignores the '[' of an optional argument's name.
RequiresAnyArg(opt) == opt.arg_name # NoString

\* The argument name asks for a detached argument: it is set and has no '['.
RequiresArg(opt) == opt.arg_name # NoString /\ opt.arg_name[1] # "["

\* A variant that reads the next token and leaves the cursor where it is.
ExecuteWithoutAdvance(S, opt, tok, c, kind, lb, oob) ==
    IF ArgsAt(S, S.args_index + 1, oob) = NULL
    THEN Fatal(ReadArgs(S, S.args_index + 1, oob), "RequiresArgument", <<opt.id, kind>>)
    ELSE execute_option(
            SetRole(ReadArgs(S, S.args_index + 1, oob),
                    ArgsAt(S, S.args_index + 1, oob), "optarg"),
            opt, [p |-> ArgsAt(S, S.args_index + 1, oob), off |-> 1], tok, c, lb, oob)

\* arg = args[++args_index], a fatal error if it is NULL, else execute_option.
ExecuteWithNextArg(S, opt, tok, c, kind, lb, oob) ==
    IF ArgsAt(S, S.args_index + 1, oob) = NULL
    THEN Fatal([ReadArgs(S, S.args_index + 1, oob) EXCEPT
                  !.args_index = S.args_index + 1],
               "RequiresArgument", <<opt.id, kind>>)
    ELSE execute_option(
            [SetRole(ReadArgs(S, S.args_index + 1, oob),
                     ArgsAt(S, S.args_index + 1, oob), "optarg")
               EXCEPT !.args_index = S.args_index + 1],
            opt, [p |-> ArgsAt(S, S.args_index + 1, oob), off |-> 1], tok, c, lb, oob)

\* A variant without the test for an unwanted option-argument.
LongUnchecked(S, opt, arg, tok, lb, oob) ==
    IF S.pc = "exit" THEN S
    ELSE IF arg = NoArg /\ RequiresArg(opt)
    THEN ExecuteWithNextArg(S, opt, tok, 0, "long", lb, oob)
    ELSE execute_option(S, opt, arg, tok, 0, lb, oob)

\* The matched long option after check_mutual_exclusivity returned state S.
LongChecked(S, opt, arg, tok, lb, oob) ==
    IF S.pc = "exit" THEN S
    ELSE IF arg # NoArg /\ opt.arg_name = NoString
    THEN Fatal(S, "UnwantedArgument", <<opt.id>>)
    ELSE IF arg = NoArg /\ RequiresArg(opt)
    THEN ExecuteWithNextArg(S, opt, tok, 0, "long", lb, oob)
    ELSE execute_option(S, opt, arg, tok, 0, lb, oob)

\* The loop over the table has ended with descriptor id, or with none.
LongMatched(S, id, arg, tok, lb, oob) ==
    IF id = "none" THEN Fatal(S, "UnknownOption", <<"long">>)
    ELSE LongChecked(check_mutual_exclusivity(S, Options[id]), Options[id],
                     arg, tok, lb, oob)

\* The name was searched for '=' (eq: its position in the name, 0 for none):
\* the '=' is overwritten with '\0' and arg points behind it.
LongSplit(S, eq, tok, options, lb, oob) ==
    LongMatched(
        IF eq > 0 THEN [S EXCEPT !.strs[tok][eq + 2] = NUL] ELSE S,
        FindLong(options, IF eq > 0 THEN SubSeq(CStrFrom(S.strs[tok], 3), 1, eq - 1)
                          ELSE CStrFrom(S.strs[tok], 3)),
        IF eq > 0 THEN [p |-> tok, off |-> eq + 3] ELSE NoArg,
        tok, lb, oob)

\* execute_long_option(args[args_index] + 2, options); tok is the token.
execute_long_option(S, tok, options, lb, oob) ==
    IF options = NoString THEN Fatal(S, "UnknownOption", <<"long">>)
    ELSE LongSplit(S, StrChr(CStrFrom(S.strs[tok], 3), "="), tok, options, lb, oob)

\* The message of the unknown_option label of execute_short_option.
UnknownShort(S, tok) ==
    IF CharAt(S.strs[tok], 2) # NUL /\ CharAt(S.strs[tok], 3) # NUL
    THEN Fatal(S, "UnknownOption", <<"in sequence">>)
    ELSE Fatal(S, "UnknownOption", <<"short">>)

\* The text behind the character at offset c, NULL if there is none.
Attached(S, tok, c) ==
    IF CharAt(S.strs[tok], c + 1) = NUL THEN NoArg ELSE [p |-> tok, off |-> c + 1]

\* The argument a matched short option is executed with when text is attached:
\* the text if the option has an argument name, else none.
ShortArg(opt, attached) == IF opt.arg_name = NoString THEN NoArg ELSE attached

RECURSIVE ShortLoop(_, _, _, _, _, _)

\* A variant that leaves the cluster after its first option.
ShortStop(S, arg, tok, options, c, lb, oob) == S

\* After execute_option returned state S: the cluster ends with an option that
\* took an argument, and goes on with the next character otherwise.
ShortNext(S, arg, tok, options, c, lb, oob) ==
    IF S.pc = "exit" \/ arg # NoArg THEN S
    ELSE ShortLoop(S, tok, options, c + 1, lb, oob)

\* The matched short option after check_mutual_exclusivity returned state S.
ShortChecked(S, opt, attached, tok, options, c, lb, oob) ==
    IF S.pc = "exit" THEN S
    ELSE IF attached = NoArg /\ RequiresArg(opt)
    THEN ExecuteWithNextArg(S, opt, tok, c, "short", lb, oob)
    ELSE ShortNext(execute_option(S, opt, ShortArg(opt, attached), tok, c, lb, oob),
                   ShortArg(opt, attached), tok, options, c, lb, oob)

\* The loop over the table has ended with descriptor id, or with none.
ShortMatched(S, id, tok, options, c, lb, oob) ==
    IF id = "none" THEN UnknownShort(S, tok)
    ELSE ShortChecked(check_mutual_exclusivity(S, Options[id]), Options[id],
                      Attached(S, tok, c), tok, options, c, lb, oob)

\* The while loop of execute_short_option; c is the 1-based offset of *c.
ShortLoop(S, tok, options, c, lb, oob) ==
    IF CharAt(S.strs[tok], c) = NUL THEN S
    ELSE ShortMatched(S, FindShort(options, CharAt(S.strs[tok], c)), tok,
                      options, c, lb, oob)

\* execute_short_option(args[args_index], options); tok is the token.
execute_short_option(S, tok, options, lb, oob) ==
    IF options = NoString THEN UnknownShort(S, tok)
    ELSE ShortLoop(S, tok, options, 2, lb, oob)

----------------
(* The argument vectors the program is started with: up to MaxArgs tokens
   after argv[0], all drawn from one of the families below. *)

FamCluster ==
    {<<"-", "a">>,
     <<"-", "a", "b">>,
     <<"-", "a", "b", "W">>,
     <<"-", "b">>,
     <<"-", "v">>,
     <<"-", "-", "v", "e", "r", "b", "o", "s", "e">>,
     <<"W">>,
     <<"-", "-", "b", "e", "e">>,
     <<"-", "-", "b", "e", "e", "=", "W">>}

FamOptional ==
    {<<"-", "o">>,
     <<"-", "o", "W">>,
     <<"-", "-", "o", "p", "t">>,
     <<"-", "-", "o", "p", "t", "=", "W">>,
     <<"-", "a", "o">>,
     <<"W">>,
     <<"-", "a">>,
     <<"-", "-", "v", "e", "r", "b", "o", "s", "e", "=", "W">>,
     <<"-", "-", "v", "e", "r", "b", "o", "s", "e", "=">>}

FamExclusive ==
    {<<"-", "x">>,
     <<"-", "y">>,
     <<"-", "-", "e", "x">>,
     <<"-", "x", "y", "W">>,
     <<"-", "y", "W">>,
     <<"-", "a">>,
     <<"W">>,
     <<"-", "-", "w", "h", "y", "=", "W">>}

FamOperand ==
    {<<"-", "-">>,
     <<"-", "a">>,
     <<"W">>,
     <<"-">>,
     <<"a", "d", "d">>,
     <<"-", "b">>,
     <<"-", "-", "v", "e", "r", "b", "o", "s", "e">>,
     <<"-", "z">>,
     <<"-", "-", "z", "z">>}

FamCommand ==
    {<<"r", "e", "m", "o", "t", "e">>,
     <<"a", "d", "d">>,
     <<"W">>,
     <<"-", "h">>,
     <<"-", "-", "h", "e", "l", "p">>,
     <<"-", "a">>,
     <<"-", "-">>,
     <<"-", "b">>}

FamShift ==
    {<<"-", "s">>,
     <<"-", "u">>,
     <<"-", "s", "b">>,
     <<"-", "b">>,
     <<"W">>,
     <<"-", "a">>,
     <<"-", "a", "s">>}

FamNumber ==
    {<<"-", "n">>,
     <<"5">>,
     <<"3", "0", "0">>,
     <<"z", "z">>,
     <<"-", "-", "n", "u", "m", "=", "5">>,
     <<"-", "n", "5">>,
     <<"-", "-", "n", "u", "m", "=", "-", "1", "2", "9">>,
     <<"-", "a">>}

FamTyped ==
    {<<"-", "t">>,
     <<"5">>,
     <<"-", "t", "3", "0", "0">>,
     <<"-", "-", "i", "n", "t", "=", "z", "z">>,
     <<"-", "v">>,
     <<"-", "q">>}

FamList ==
    {<<"-", "l">>,
     <<"1", ",", ",", "2">>,
     <<"-", "l", "1", ",", "x", ",", "2">>,
     <<"-", "-", "l", "i", "s", "t", "=", "5", ",", "3", "0", "0", ",", "x">>,
     <<"-", "-", "l", "i", "s", "t", "=", ",">>}

FamArray ==
    {<<"-", "m", "a", ";", ";", "b">>,
     <<"-", "m", ",">>,
     <<"-", "r">>,
     <<"a", ",", "b", ";", "c">>,
     <<"-", "-", "r", "a", "w", "=", "a", ",", "b", ",", "c">>,
     <<"-", "-", "k", "e", "e", "p", "=", "a", ",", "b">>,
     <<"-", "k", ",">>}

Families ==
    {FamCluster, FamOptional, FamExclusive, FamOperand, FamCommand, FamShift, FamNumber,
     FamTyped, FamList, FamArray}

\* The tokens the type converter is called with.
Numerals ==
    {<<"0">>,
     <<"1">>,
     <<"-", "1">>,
     <<"-", "0">>,
     <<"1", "2", "7">>,
     <<"1", "2", "8">>,
     <<"-", "1", "2", "8">>,
     <<"-", "1", "2", "9">>,
     <<"2", "5", "5">>,
     <<"2", "5", "6">>,
     <<"3", "2", "7", "6", "7">>,
     <<"3", "2", "7", "6", "8">>,
     <<"-", "3", "2", "7", "6", "8">>,
     <<"-", "3", "2", "7", "6", "9">>,
     <<"6", "5", "5", "3", "5">>,
     <<"6", "5", "5", "3", "6">>,
     <<"2", "1", "4", "7", "4", "8", "3", "6", "4", "7">>,
     <<"2", "1", "4", "7", "4", "8", "3", "6", "4", "8">>,
     <<"-", "2", "1", "4", "7", "4", "8", "3", "6", "4", "8">>,
     <<"-", "2", "1", "4", "7", "4", "8", "3", "6", "4", "9">>,
     <<"4", "2", "9", "4", "9", "6", "7", "2", "9", "5">>,
     <<"4", "2", "9", "4", "9", "6", "7", "2", "9", "6">>,
     <<"0", "x", "7", "f">>,
     <<"0", "x", "8", "0">>,
     <<"0", "x", "f", "f">>,
     <<"0", "x", "1", "0", "0">>,
     <<"0", "X", "F", "F", "F", "F">>,
     <<"0", "x", "1", "0", "0", "0", "0">>,
     <<"0", "x", "f", "f", "f", "f", "f", "f", "f", "f">>,
     <<"0", "x", "1", "0", "0", "0", "0", "0", "0", "0", "0">>,
     <<"0", "1", "7", "7">>,
     <<"0", "2", "0", "0">>,
     <<"0", "4", "0", "0">>,
     <<"0", "8">>,
     <<>>,
     <<"a", "b", "c">>,
     <<"1", "2", "a", "b">>,
     <<"0", "x">>,
     <<"x", "1">>,
     <<" ", "5">>,
     <<"+", "7">>,
     <<"-">>,
     <<"5", " ">>,
     <<"9", "2", "2", "3", "3", "7", "2", "0", "3", "6", "8", "5", "4", "7", "7", "5", "8", "0", "7">>,
     <<"9", "2", "2", "3", "3", "7", "2", "0", "3", "6", "8", "5", "4", "7", "7", "5", "8", "0", "8">>,
     <<"-", "9", "2", "2", "3", "3", "7", "2", "0", "3", "6", "8", "5", "4", "7", "7", "5", "8", "0", "9">>,
     <<"1", "8", "4", "4", "6", "7", "4", "4", "0", "7", "3", "7", "0", "9", "5", "5", "1", "6", "1", "5">>,
     <<"1", "8", "4", "4", "6", "7", "4", "4", "0", "7", "3", "7", "0", "9", "5", "5", "1", "6", "1", "6">>,
     <<"-", "1", "8", "4", "4", "6", "7", "4", "4", "0", "7", "3", "7", "0", "9", "5", "5", "1", "6", "1", "5">>,
     <<"-", "4", "2", "9", "4", "9", "6", "7", "2", "9", "5">>,
     <<"-", "4", "2", "9", "4", "9", "6", "7", "0", "4", "1">>,
     <<"-", "1", "8", "4", "4", "6", "7", "4", "4", "0", "7", "3", "7", "0", "9", "5", "5", "1", "3", "6", "1">>,
     <<"9", "9", "9", "9", "9", "9", "9", "9", "9", "9", "9", "9", "9", "9", "9", "9", "9", "9", "9", "9", "9", "9", "9">>}

\* Every spelling of a word in upper and lower case letters.
RECURSIVE CaseVariants(_)
CaseVariants(w) ==
    IF w = <<>> THEN {<<>>}
    ELSE {<<c>> \o v : c \in {Head(w), UpperCase[StrChr(LowerCase, Head(w))]},
                       v \in CaseVariants(Tail(w))}

\* The words the type converter is called with, besides the numerals.
Words ==
    UNION {CaseVariants(w) : w \in TrueWords \cup FalseWords}
    \cup {<<"m", "a", "y", "b", "e">>, <<"t", "r", "u", "e", "e">>, <<"y">>,
          <<"o">>, <<"T">>, <<"1", "x">>, <<"o", "n", " ">>}

----------------------------------------------------------------------------
(* parse: the command tree walker, one action per kind of loop iteration. *)

\* The parser's variables as the record the functions above work on, with
\* the locals of execute_option and strtoarr (array is strtoarr's *array, size
\* its return value) and with what realloc(ptr, 0) does in this step.
Cur ==
    [strs |-> strs, argv |-> argv, argc |-> argc, args |-> args,
     args_index |-> args_index, exclusive_opts |-> exclusive_opts,
     flags |-> flags, storage |-> storage, calls |-> calls,
     cmd_calls |-> cmd_calls, pc |-> pc, err |-> err, role |-> role,
     executed |-> executed, api_calls |-> api_calls, beyond |-> beyond,
     wild_write |-> wild_write, heap |-> heap, effects |-> effects,
     memory |-> memory, conv_arg |-> conv_arg,
     array |-> [ptr |-> NULL, items |-> <<>>], size |-> 0,
     list_array |-> [ptr |-> NULL, items |-> <<>>], list_size |-> 0,
     oarg |-> [ptr |-> NULL, str |-> NoString], realloc0 |-> "null"]

Commit(S) ==
    /\ strs' = S.strs
    /\ argv' = S.argv
    /\ argc' = S.argc
    /\ args' = S.args
    /\ args_index' = S.args_index
    /\ exclusive_opts' = S.exclusive_opts
    /\ flags' = S.flags
    /\ storage' = S.storage
    /\ calls' = S.calls
    /\ cmd_calls' = S.cmd_calls
    /\ pc' = S.pc
    /\ err' = S.err
    /\ role' = S.role
    /\ executed' = S.executed
    /\ api_calls' = S.api_calls
    /\ beyond' = S.beyond
    /\ wild_write' = S.wild_write
    /\ heap' = S.heap
    /\ effects' = S.effects

\* What the word after argv's terminator may hold.
OobValues == {NULL, FOREIGN}

\* (*argv)[i] = v.
WriteArgv(S, i, v) ==
    IF i \in DOMAIN S.argv THEN [S EXCEPT !.argv[i] = v]
    ELSE [S EXCEPT !.wild_write = TRUE]

\* A variant that leaves the scan index where the handler left it.
LoopStay(S, oob) ==
    IF S.pc = "exit" THEN S ELSE ReadArgs(S, S.args_index, oob)

\* The end of a loop iteration: step to the next token unless on the terminator.
LoopTail(S, oob) ==
    IF S.pc = "exit" THEN S
    ELSE IF ArgsAt(S, S.args_index, oob) # NULL
    THEN [ReadArgs(S, S.args_index, oob) EXCEPT !.args_index = S.args_index + 1]
    ELSE ReadArgs(S, S.args_index, oob)

\* The loop condition holds and the token is scanned as an option.
AtToken(oob) == pc = "scan" /\ ArgsAt(Cur, args_index, oob) # NULL
TokenChar(oob, i) == CharAt(strs[ArgsAt(Cur, args_index, oob)], i)
\* A variant that does not look at ignore_options.
AtOptionAlways(oob) == AtToken(oob) /\ TokenChar(oob, 1) = "-"

AtOption(oob) ==
    AtToken(oob) /\ ignore_options = 0 /\ TokenChar(oob, 1) = "-"

\* optparse_parse(cmd, &argc, &argv) up to the first test of parse()'s loop.
optparse_parse ==
    /\ pc = "idle"
    /\ \E cmd \in DOMAIN Commands :
        /\ optparse_main_cmd' = cmd
        /\ active_cmd' = cmd
    /\ args' = 0
    /\ args_index' = 1
    /\ argc' = 1
    /\ ignore_options' = 0
    /\ pc' = "scan"
    /\ parses' = parses + 1
    /\ UNCHANGED <<longBits, memory, conv_arg, help, conv, strs, given, argv, exclusive_opts, flags, storage,
                   heap, effects,
                   calls, cmd_calls, err, role, executed, api_calls, beyond,
                   wild_write>>

\* Stand-alone option "--".
ScanEndOfOptions ==
    \E oob \in OobValues :
        /\ AtOption(oob)
        /\ TokenChar(oob, 2) = "-"
        /\ TokenChar(oob, 3) = NUL
        /\ ignore_options' = 1
        /\ Commit(LoopTail(SetRole(Cur, ArgsAt(Cur, args_index, oob), "marker"), oob))
        /\ UNCHANGED <<longBits, memory, conv_arg, help, conv, given, parses, optparse_main_cmd, active_cmd>>

\* Long option.
ScanLongOption ==
    \E oob \in OobValues, rz \in ReallocZero :
        /\ AtOption(oob)
        /\ TokenChar(oob, 2) = "-"
        /\ TokenChar(oob, 3) # NUL
        /\ Len(executed) < MaxExecuted
        /\ LET tok == ArgsAt(Cur, args_index, oob)
           IN  Commit(LoopTail(execute_long_option(SetRole([Cur EXCEPT !.realloc0 = rz], tok, "option"), tok,
                                    Commands[active_cmd].options, longBits, oob), oob))
        /\ UNCHANGED <<longBits, memory, conv_arg, help, conv, given, parses, optparse_main_cmd, active_cmd, ignore_options>>

\* Short option.
ScanShortOption ==
    \E oob \in OobValues, rz \in ReallocZero :
        /\ AtOption(oob)
        /\ TokenChar(oob, 2) # "-"
        /\ Len(executed) < MaxExecuted
        /\ LET tok == ArgsAt(Cur, args_index, oob)
           IN  Commit(LoopTail(execute_short_option(SetRole([Cur EXCEPT !.realloc0 = rz], tok, "option"), tok,
                                    Commands[active_cmd].options, longBits, oob), oob))
        /\ UNCHANGED <<longBits, memory, conv_arg, help, conv, given, parses, optparse_main_cmd, active_cmd, ignore_options>>

\* The first child command whose name is the given string.
RECURSIVE FindCommand(_, _)
FindCommand(subcommands, name) ==
    IF subcommands = <<>> THEN "none"
    ELSE IF Commands[Head(subcommands)].name = name THEN Head(subcommands)
    ELSE FindCommand(Tail(subcommands), name)

\* The child command the current token names, "none" if it names none.
MatchedSubcommand(oob) ==
    FindCommand(Commands[active_cmd].subcommands,
                CStrFrom(strs[ArgsAt(Cur, args_index, oob)], 1))

\* A variant that copies one argument instead of all that follow.
SpliceOnce(S, oob) ==
    [WriteArgv(ReadArgs(S, S.args_index + 1, oob), S.argc,
               ArgsAt(S, S.args_index + 1, oob)) EXCEPT
       !.argc = S.argc + 1, !.args_index = S.args_index + 1]

\* do { (*argv)[(*argc)++] = args[++args_index]; } while (args[args_index]);
RECURSIVE Splice(_, _)
Splice(S, oob) ==
    LET nxt == ArgsAt(S, S.args_index + 1, oob)
        S1 == [WriteArgv(ReadArgs(S, S.args_index + 1, oob), S.argc, nxt) EXCEPT
                 !.argc = S.argc + 1, !.args_index = S.args_index + 1]
    IN  IF nxt # NULL THEN Splice(S1, oob) ELSE S1

\* Operand or subcommand, in a command that has subcommands and one matches:
\* the preceding arguments are removed and parse() is entered for the child.
ScanSubcommand ==
    \E oob \in OobValues :
        /\ AtToken(oob) /\ ~AtOption(oob)
        /\ Commands[active_cmd].subcommands # NoString
        /\ MatchedSubcommand(oob) # "none"
        /\ LET S1 == Splice(SetRole(Cur, ArgsAt(Cur, args_index, oob), "subcmd"), oob)
               S2 == WriteArgv(S1, S1.argc, NULL)
           IN  Commit([S2 EXCEPT !.args_index = 1, !.argc = 1])
        /\ active_cmd' = MatchedSubcommand(oob)
        /\ ignore_options' = 0
        /\ UNCHANGED <<longBits, memory, conv_arg, help, conv, given, parses, optparse_main_cmd>>

\* A variant that keeps a token naming no child command as an operand.
ScanUnknownAsOperand ==
    \E oob \in OobValues :
        /\ AtToken(oob) /\ ~AtOption(oob)
        /\ Commands[active_cmd].subcommands # NoString
        /\ MatchedSubcommand(oob) = "none"
        /\ Commit(LoopTail([WriteArgv(SetRole(Cur, ArgsAt(Cur, args_index, oob), "operand"),
                                      argc, ArgsAt(Cur, args_index, oob))
                              EXCEPT !.argc = argc + 1], oob))
        /\ UNCHANGED <<longBits, memory, conv_arg, help, conv, given, parses, optparse_main_cmd, active_cmd, ignore_options>>

\* Operand or subcommand, in a command that has subcommands and none matches.
ScanUnknownCommand ==
    \E oob \in OobValues :
        /\ AtToken(oob) /\ ~AtOption(oob)
        /\ Commands[active_cmd].subcommands # NoString
        /\ MatchedSubcommand(oob) = "none"
        /\ Commit(Fatal(SetRole(Cur, ArgsAt(Cur, args_index, oob), "unknown"),
                        "UnknownCommand", <<>>))
        /\ UNCHANGED <<longBits, memory, conv_arg, help, conv, given, parses, optparse_main_cmd, active_cmd, ignore_options>>

\* Treat argument as an operand, adding it to the new argv.
ScanOperand ==
    \E oob \in OobValues :
        /\ AtToken(oob) /\ ~AtOption(oob)
        /\ Commands[active_cmd].subcommands = NoString
        /\ LET tok == ArgsAt(Cur, args_index, oob)
               S1 == [WriteArgv(SetRole(Cur, tok, "operand"), argc, tok) EXCEPT
                        !.argc = argc + 1]
           IN  Commit(LoopTail(S1, oob))
        /\ UNCHANGED <<longBits, memory, conv_arg, help, conv, given, parses, optparse_main_cmd, active_cmd, ignore_options>>

\* The loop has ended: terminate argv, run the command's function, return.
ParseFinish ==
    \E oob \in OobValues :
        /\ pc = "scan"
        /\ ArgsAt(Cur, args_index, oob) = NULL
        /\ LET S1 == WriteArgv(ReadArgs(Cur, args_index, oob), argc, NULL)
               fn == Commands[active_cmd].function
               S2 == [S1 EXCEPT
                        !.args_index = 0,
                        !.cmd_calls = Append(@,
                            [cmd |-> active_cmd, argc |-> S1.argc,
                             argv |-> [i \in 1..S1.argc |-> ArgsAt(S1, i - 1, oob)],
                             last |-> ArgsAt(S1, S1.argc, oob)])]
               S3 == IF fn = "none" THEN S1
                     ELSE RunCallback(S2, CallbackProgram(fn), oob)
           IN  Commit([S3 EXCEPT !.pc = "done"])
        /\ UNCHANGED <<longBits, memory, conv_arg, help, conv, given, parses, optparse_main_cmd, active_cmd, ignore_options>>

----------------------------------------------------------------------------
(* The specification of the parser. *)

ProgramName == <<"p", "r", "o", "g">>

\* All argument lists of up to MaxArgs tokens of a family.
ArgLists(F) == UNION {[1..k -> F] : k \in 0..MaxArgs}

\* The state before optparse_parse is called with the given arguments.
ParserIdle(toks) ==
    /\ strs = [i \in (0..Len(toks)) \cup {FOREIGN} |->
                 IF i = FOREIGN THEN <<"E">>
                 ELSE IF i = 0 THEN ProgramName ELSE toks[i]]
    /\ given = strs
    /\ argv = [i \in 0..(Len(toks) + 1) |-> IF i <= Len(toks) THEN i ELSE NULL]
    /\ argc = Len(toks) + 1
    /\ args = NULL
    /\ args_index = 0
    /\ optparse_main_cmd = "none"
    /\ active_cmd = "none"
    /\ ignore_options = 0
    /\ exclusive_opts = [g \in 0..(OPTPARSE_MUTUALLY_EXCLUSIVE_GROUPS_MAX - 1) |-> "none"]
    /\ flags = [f \in FlagNames |-> 0]
    /\ storage = [d \in StorageNames |-> XNone]
    /\ calls = <<>>
    /\ cmd_calls = <<>>
    /\ pc = "idle"
    /\ err = NoError
    /\ role = [i \in 0..Len(toks) |-> "unread"]
    /\ executed = <<>>
    /\ api_calls = <<>>
    /\ beyond = UNSEEN
    /\ wild_write = FALSE
    /\ heap = <<>>
    /\ effects = <<>>
    /\ parses = 0

\* A number of blocks that no run of the model needs.
Plenty == 2 * MaxExecuted

ConvIdle ==
    [str |-> <<>>, type |-> DATA_TYPE_NONE, delim |-> NoString, called |-> TRUE,
     ret |-> 0, x |-> XNone]

Init ==
    /\ longBits = 64
    /\ memory = Plenty
    /\ conv_arg = XUninit
    /\ help = HelpIdle
    /\ conv = ConvIdle
    /\ \E F \in Families : \E toks \in ArgLists(F) : ParserIdle(toks)

Next ==
    \/ optparse_parse
    \/ ScanEndOfOptions
    \/ ScanLongOption
    \/ ScanShortOption
    \/ ScanSubcommand
    \/ ScanUnknownCommand
    \/ ScanOperand
    \/ ParseFinish

Spec == Init /\ [][Next]_vars

----------------------------------------------------------------------------
(* The specification of the type converter on its own. *)

\* The converter's call record once strtox has returned r.
Converted(c, r) == [c EXCEPT !.called = TRUE, !.ret = r.ret, !.x = r.x]

\* strtox(str, &x, data_type).
Convert ==
    /\ ~conv.called
    /\ conv' = Converted(conv, Strtox(conv.str, conv.type, longBits))
    /\ UNCHANGED <<longBits, memory, conv_arg, help, parserVars>>

InitConv ==
    /\ longBits \in {32, 64}
    /\ memory = Plenty
    /\ conv_arg = XUninit
    /\ help = HelpIdle
    /\ \/ \E str \in Numerals :
             \E t \in IntegerTypes \cup CharTypes \cup {DATA_TYPE_BOOL, DATA_TYPE_STR} :
                conv = [str |-> str, type |-> t, delim |-> NoString, called |-> FALSE,
                        ret |-> 0, x |-> XNone]
       \/ \E str \in Words : \E t \in CharTypes \cup {DATA_TYPE_BOOL, DATA_TYPE_STR} :
                conv = [str |-> str, type |-> t, delim |-> NoString, called |-> FALSE,
                        ret |-> 0, x |-> XNone]
    /\ ParserIdle(<<>>)

NextConv == Convert

SpecConv == InitConv /\ [][NextConv]_vars

----------------------------------------------------------------------------
(* The specification of the list splitter on its own. *)

\* The lists strtoarr is called with: all strings of up to MaxListLen
\* characters; the delimiter sets are "," and ",;".
ListStrings == UNION {[1..k -> {"a", "b", "c", ",", ";"}] : k \in 0..MaxListLen}

\* strtoarr has returned in state R.
SplitDone(R) ==
    /\ Commit(R)
    /\ conv' = Converted(conv, [ret |-> R.size, x |-> XArray(R.array.items, R.size)])

\* strtoarr is called once, on the string in buffer 1.
Split ==
    /\ ~conv.called
    /\ \E rz \in ReallocZero :
          SplitDone(strtoarr([Cur EXCEPT !.realloc0 = rz], [p |-> 1, off |-> 1],
                             conv.delim, conv.type, longBits, "list"))
    /\ UNCHANGED <<longBits, memory, conv_arg, help, given, parses, optparse_main_cmd, active_cmd, ignore_options>>

InitArr ==
    /\ longBits = 64
    /\ memory = Plenty
    /\ conv_arg = XUninit
    /\ help = HelpIdle
    /\ \E str \in ListStrings : \E d \in {<<",">>, <<",", ";">>} :
          /\ conv = [str |-> str, type |-> DATA_TYPE_STR, delim |-> d, called |-> FALSE,
                     ret |-> 0, x |-> XNone]
          /\ ParserIdle(<<str>>)

NextArr == Split

SpecArr == InitArr /\ [][NextArr]_vars

----------------------------------------------------------------------------
(* The specification of a process that also moves the cursor before it
   parses, and that parses its command line more than once. *)

\* Largest number of optparse_parse calls of one process.
MaxParses == 2

FamCursor ==
    {<<"-", "u", "u">>,
     <<"-", "s", "p">>,
     <<"-", "x">>,
     <<"-", "-", "e", "x">>,
     <<"-", "-">>,
     <<"a", "d", "d">>,
     <<"W">>}

\* optparse_shift() or optparse_unshift() is called before the first parse.
CursorBeforeParse ==
    /\ pc = "idle"
    /\ api_calls = <<>>
    /\ \E op \in {"shift", "unshift"} : Commit(RunCallback(Cur, <<op>>, NULL))
    /\ UNCHANGED <<longBits, memory, conv_arg, help, conv, given, parses, optparse_main_cmd, active_cmd, ignore_options>>

\* optparse_parse(cmd, &argc, &argv) is called again, after the process has
\* put the argument vector and its strings back as they were given.
ParseAgain ==
    /\ pc = "done"
    /\ parses < MaxParses
    /\ parses' = parses + 1
    /\ strs' = given
    /\ argv' = [i \in DOMAIN argv |-> IF i < ArgvEnd(argv) THEN i ELSE NULL]
    /\ role' = [i \in DOMAIN role |-> "unread"]
    /\ active_cmd' = optparse_main_cmd
    /\ args' = 0
    /\ args_index' = 1
    /\ argc' = 1
    /\ ignore_options' = 0
    /\ pc' = "scan"
    /\ UNCHANGED <<longBits, memory, conv_arg, help, conv, given, optparse_main_cmd, exclusive_opts, flags,
                   storage, heap, effects, calls, cmd_calls, err, executed,
                   api_calls, beyond, wild_write>>

InitCursor ==
    /\ longBits = 64
    /\ memory = Plenty
    /\ conv_arg = XUninit
    /\ help = HelpIdle
    /\ conv = ConvIdle
    /\ \E toks \in ArgLists(FamCursor) : ParserIdle(toks)

NextCursor ==
    \/ Next
    \/ CursorBeforeParse
    \/ ParseAgain

SpecCursor == InitCursor /\ [][NextCursor]_vars

----------------------------------------------------------------------------
(* The specification of a process whose allocator may run out of memory. *)

MemorySizes == {0, 1, Plenty}

FamMemory ==
    {<<"-", "m">>,
     <<"-", "-", "k", "e", "e", "p", "=", "a", ",", "b">>,
     <<"-", "x">>,
     <<"-", "-", "e", "x", "=", "W">>,
     <<"-", "t", "3", "0", "0">>,
     <<"-", "-", "i", "n", "t", "=", "z", "z">>,
     <<"-", "z">>,
     <<"-", "-">>,
     <<"a", "d", "d">>,
     <<"W">>}

InitMemory ==
    /\ longBits = 64
    /\ memory \in MemorySizes
    /\ conv_arg = XUninit
    /\ help = HelpIdle
    /\ conv = ConvIdle
    /\ \E toks \in ArgLists(FamMemory) : ParserIdle(toks)

SpecMemory == InitMemory /\ [][Next]_vars

----------------------------------------------------------------------------
(* The specification of a process that prints help without exiting. *)

\* Largest number of help texts printed by one process.
MaxRenders == 2

FamHelp ==
    {<<"r", "e", "m", "o", "t", "e">>,
     <<"a", "d", "d">>,
     <<"-", "h">>,
     <<"-", "-", "h", "e", "l", "p">>,
     <<"-", "-">>}

\* optparse_print_help(true), called by the program during or after a parse.
optparse_print_help ==
    /\ pc \in {"scan", "done"}
    /\ Len(help.printed) < MaxRenders
    /\ help' = print_usage(help, active_cmd, optparse_main_cmd)
    /\ UNCHANGED <<longBits, memory, conv_arg, conv, parserVars>>

InitHelp ==
    /\ longBits = 64
    /\ memory = Plenty
    /\ conv_arg = XUninit
    /\ help = HelpIdle
    /\ conv = ConvIdle
    /\ \E toks \in ArgLists(FamHelp) : ParserIdle(toks)

NextHelp ==
    \/ Next
    \/ optparse_print_help

SpecHelp == InitHelp /\ [][NextHelp]_vars

----------------------------------------------------------------------------
(* Vocabulary of the properties below. *)

\* The tokens after argv[0], named by their position in the initial vector.
Tokens == DOMAIN role \ {0}

\* The elements of a set of tokens in their original order.
RECURSIVE Ascending(_)
Ascending(T) ==
    IF T = {} THEN <<>>
    ELSE <<CHOOSE x \in T : \A y \in T : x <= y>>
         \o Ascending(T \ {CHOOSE x \in T : \A y \in T : x <= y})

\* The operand vector handed back: argv[1..argc).
OperandVector == [p \in 1..(argc - 1) |-> argv[p]]

ExecutedAsOption(i) == \E k \in DOMAIN executed : executed[k].tok = i
Operands == {i \in Tokens : role[i] = "operand"}
SubcommandTokens == {i \in Tokens : role[i] = "subcmd"}

\* The last token matched as a subcommand name, 0 if there is none.
LastSubcommand ==
    IF SubcommandTokens = {} THEN 0
    ELSE CHOOSE i \in SubcommandTokens : \A j \in SubcommandTokens : j <= i

\* An executed option had text attached in its own token: characters behind
\* its letter in a cluster, a '=' (overwritten by the matcher) in a long option.
HadAttached(e) ==
    IF e.c = 0 THEN Len(CStrFrom(strs[e.tok], 1)) < Len(strs[e.tok])
    ELSE e.c < Len(strs[e.tok])

AttachedText(e) ==
    IF e.c = 0
    THEN SubSeq(given[e.tok], Len(CStrFrom(strs[e.tok], 1)) + 2, Len(given[e.tok]))
    ELSE SubSeq(given[e.tok], e.c + 1, Len(given[e.tok]))

OptionalArg(opt) == opt.arg_name # NoString /\ opt.arg_name[1] = "["

----------------------------------------------------------------------------
(* Properties of the parser. *)

\* C1 (as stated): after a successful parse in which no callback moved the
\* cursor, argv[0] is unchanged, argv[1..argc) is the subsequence, in original
\* order, of the tokens that were not executed as options, not consumed as
\* detached option-arguments, not the "--" marker and not matched subcommand
\* names, and argv[argc] is NULL.
C1_Leftover(i) ==
    ~ExecutedAsOption(i) /\ role[i] \notin {"optarg", "marker", "subcmd"}

C1_OperandsAreTheLeftovers ==
    (pc = "done" /\ api_calls = <<>>) =>
        /\ argv[0] = 0
        /\ strs[0] = ProgramName
        /\ OperandVector = Ascending({i \in Tokens : C1_Leftover(i)})
        /\ argv[argc] = NULL

\* C2: in a short-option token the characters are processed left to right.
\* Every executed option of a cluster is the one its character names; a
\* character behind the first is reached only from the character before it,
\* whose option has no argument name and was executed without argument; after
\* an option without argument name the next character is executed too unless
\* the parse aborted; an option with an argument name that has text behind it
\* receives all of that text, and nothing of the token is executed after it.
C2_Entry(k) ==
    /\ strs[executed[k].tok][1] = "-"
    /\ Options[executed[k].opt].short_name = strs[executed[k].tok][executed[k].c]
    /\ executed[k].c > 2 =>
          /\ k > 1
          /\ executed[k - 1].tok = executed[k].tok
          /\ executed[k - 1].c = executed[k].c - 1
          /\ executed[k - 1].arg = NoString
          /\ Options[executed[k - 1].opt].arg_name = NoString
    /\ Options[executed[k].opt].arg_name = NoString =>
          /\ executed[k].arg = NoString
          /\ (HadAttached(executed[k]) /\ pc # "exit") =>
                /\ k < Len(executed)
                /\ executed[k + 1].tok = executed[k].tok
                /\ executed[k + 1].c = executed[k].c + 1
    /\ (Options[executed[k].opt].arg_name # NoString /\ HadAttached(executed[k])) =>
          /\ executed[k].arg = AttachedText(executed[k])
          /\ executed[k].argtok = executed[k].tok
          /\ k < Len(executed) => executed[k + 1].c <= 2

C2_ClusterLeftToRight ==
    \A k \in DOMAIN executed : executed[k].c >= 2 => C2_Entry(k)

\* C2's case: -abVALUE has set flag a and given b the value.
C2_Witness ==
    \E k \in DOMAIN executed :
        /\ k < Len(executed)
        /\ strs[executed[k].tok] = <<"-", "a", "b", "W">>
        /\ executed[k].opt = "a" /\ executed[k].arg = NoString
        /\ executed[k + 1].opt = "b" /\ executed[k + 1].arg = <<"W">>
        /\ flags["fa"] = 1
        /\ storage["sb"] = XStr(<<"W">>)

\* C3 (as stated): an option with a required argument and no attached value
\* consumes the next token of the argument vector as its value, and that token
\* is not scanned again; with no next token the option is not executed.
C3_Entry(e) ==
    (RequiresArg(Options[e.opt]) /\ ~HadAttached(e)) =>
        /\ e.argtok \in Tokens
        /\ e.arg = given[e.argtok]
        /\ role[e.argtok] = "optarg"
        /\ ~ExecutedAsOption(e.argtok)
        /\ e.argtok \notin {argv[p] : p \in 1..(argc - 1)}

C3_NextTokenIsTheValue ==
    \A k \in DOMAIN executed : C3_Entry(executed[k])

\* C4: an option whose argument name begins with '[' takes the text attached
\* in its own token as its argument and never another token; without attached
\* text it is executed with no argument, the cursor is still on its own token
\* when it is executed, and once the parse has succeeded the token behind it
\* has been scanned as an option, operand, marker or subcommand.
C4_Entry(e) ==
    OptionalArg(Options[e.opt]) =>
        /\ HadAttached(e) => (e.argtok = e.tok /\ e.arg = AttachedText(e))
        /\ ~HadAttached(e) => (e.argtok = NULL /\ e.arg = NoString)
        /\ api_calls = <<>> => e.cur = e.tok
        /\ (~HadAttached(e) /\ api_calls = <<>> /\ pc = "done" /\ e.tok + 1 \in Tokens) =>
              role[e.tok + 1] \in {"option", "operand", "marker", "subcmd"}

C4_OptionalArgumentIsAttachedOnly ==
    \A k \in DOMAIN executed : C4_Entry(executed[k])

\* C4's case: -o followed by a word; the word is an operand, not o's value.
C4_Witness ==
    /\ pc = "done"
    /\ Len(executed) = 1
    /\ executed[1].opt = "o" /\ executed[1].tok = 1 /\ executed[1].arg = NoString
    /\ 2 \in Tokens /\ role[2] = "operand" /\ strs[2] = <<"W">>
    /\ flags["fo"] = 1
    /\ storage["so"] = XNone

\* The command reached from cmd through the children the names select.
RECURSIVE Descend(_, _)
Descend(cmd, names) ==
    IF names = <<>> THEN cmd
    ELSE Descend(CHOOSE c \in DOMAIN Commands :
                    /\ \E q \in DOMAIN Commands[cmd].subcommands :
                          Commands[cmd].subcommands[q] = c
                    /\ Commands[c].name = strs[Head(names)],
                 Tail(names))

\* C5: the terminal callback runs only when the parse has finished.  Then every
\* token has been scanned, the active command is the one the chain of matched
\* names leads to from the main command, every operand stands behind the last
\* of these names, and the callback of that command (if it has one), and of
\* no other, has been invoked exactly once with argc = 1 + number of operands
\* and argv = argv[0] followed by the operands in original order and NULL.
C5_TerminalCallback ==
    /\ pc # "done" => cmd_calls = <<>>
    /\ pc = "done" =>
          /\ \A i \in Tokens : role[i] # "unread"
          /\ active_cmd = Descend(optparse_main_cmd, Ascending(SubcommandTokens))
          /\ \A i \in Operands : i > LastSubcommand
          /\ IF Commands[active_cmd].function = "none" THEN cmd_calls = <<>>
             ELSE cmd_calls = <<[cmd |-> active_cmd,
                                 argc |-> 1 + Cardinality(Operands),
                                 argv |-> <<0>> \o Ascending(Operands),
                                 last |-> NULL]>>

\* C5's case: prog remote add W reaches add with the one operand W.
C5_Witness ==
    /\ pc = "done"
    /\ optparse_main_cmd = "prog"
    /\ Len(cmd_calls) = 1
    /\ cmd_calls[1].cmd = "add"
    /\ cmd_calls[1].argc = 2
    /\ cmd_calls[1].argv[2] = 3
    /\ strs[3] = <<"W">>

SameGroup(a, b) ==
    /\ Options[a].group = Options[b].group
    /\ Options[a].group > 0
    /\ Options[a].group < OPTPARSE_MUTUALLY_EXCLUSIVE_GROUPS_MAX

\* The option has had no effect: flag and storage as initialised, no call.
Untouched(id) ==
    /\ Options[id].flag # "none" => flags[Options[id].flag] = 0
    /\ Options[id].arg_storage # "none" => storage[Options[id].arg_storage] = XNone
    /\ \A k \in DOMAIN calls : calls[k].opt # id
    /\ \A k \in DOMAIN executed : executed[k].opt # id

\* C6: no two different options of one mutual-exclusion group are ever both
\* executed; the fatal error that prevents it names two options of one group,
\* the first of which has been executed, and the second of which, if another
\* option, has had none of its side effects applied.
C6_MutualExclusion ==
    /\ \A j, k \in DOMAIN executed :
          executed[j].opt # executed[k].opt => ~SameGroup(executed[j].opt, executed[k].opt)
    /\ err.kind = "MutuallyExclusive" =>
          /\ pc = "exit"
          /\ SameGroup(err.info[1], err.info[2])
          /\ \E k \in DOMAIN executed : executed[k].opt = err.info[1]
          /\ err.info[1] # err.info[2] => Untouched(err.info[2])

\* C6's case: x was executed, then y of the same group was matched.
C6_Witness ==
    /\ err = [kind |-> "MutuallyExclusive", info |-> <<"x", "y">>]
    /\ flags["fx"] = 1
    /\ flags["fy"] = 0

\* The token the cursor is on, NULL on or behind the terminator.
CursorToken == IF args_index <= ArgvEnd(argv) THEN argv[args_index] ELSE NULL

\* A token "--name=value" whose '=' the matcher has overwritten.
SplitLong(i) == Len(CStrFrom(strs[i], 1)) < Len(strs[i])

C7_State ==
    /\ \A k \in DOMAIN executed :
          (executed[k].c = 0 /\ Options[executed[k].opt].arg_name = NoString) =>
              ~SplitLong(executed[k].tok)
    /\ err.kind = "UnwantedArgument" =>
          /\ pc = "exit"
          /\ Options[err.info[1]].arg_name = NoString
          /\ SplitLong(CursorToken)
          /\ ~ExecutedAsOption(CursorToken)

C7_Step ==
    (err.kind = "none" /\ err'.kind = "UnwantedArgument") =>
        (flags' = flags /\ storage' = storage /\ calls' = calls /\ executed' = executed)

\* C7: a long option without argument name is never executed from a token
\* with an attached value; the parse aborts with the unwanted-argument error
\* instead, and the aborting step leaves flags, storage and the record of
\* callback calls as they were.
C7_UnwantedArgument == []C7_State /\ [][C7_Step]_vars

\* C7's case: --verbose= (the empty value) has aborted the parse.
C7_Witness ==
    /\ err = [kind |-> "UnwantedArgument", info |-> <<"v">>]
    /\ CursorToken \in Tokens
    /\ AttachedText([c |-> 0, tok |-> CursorToken]) = <<>>
    /\ flags["fv"] = 0

\* The cursor is on an operand-shaped token that names no child command.
C8_Stray ==
    /\ pc = "scan"
    /\ CursorToken # NULL
    /\ ~(ignore_options = 0 /\ CharAt(strs[CursorToken], 1) = "-")
    /\ Commands[active_cmd].subcommands # NoString
    /\ \A q \in DOMAIN Commands[active_cmd].subcommands :
          Commands[Commands[active_cmd].subcommands[q]].name # CStrFrom(strs[CursorToken], 1)

C8_State ==
    \A k \in DOMAIN cmd_calls :
        Commands[cmd_calls[k].cmd].subcommands # NoString => cmd_calls[k].argc = 1

C8_Step ==
    C8_Stray => (pc' = "exit" /\ err'.kind = "UnknownCommand" /\ cmd_calls' = <<>>)

\* C8: in a command that has child commands, the step taken on an
\* operand-shaped token that names no child is the fatal unknown-command error,
\* and the terminal callback of such a command is only invoked with argc = 1.
C8_UnknownCommand == []C8_State /\ [][C8_Step]_vars

\* C8's case: prog remote W has aborted on W in the scope of remote.
C8_Witness ==
    /\ err.kind = "UnknownCommand"
    /\ optparse_main_cmd = "prog"
    /\ active_cmd = "remote"
    /\ strs[CursorToken] = <<"W">>

\* The "--" markers scanned in the active command's scope.
ScopeMarkers == {i \in Tokens : role[i] = "marker" /\ i > LastSubcommand}
FirstMarker == CHOOSE i \in ScopeMarkers : \A j \in ScopeMarkers : i <= j
AfterMarker == {j \in Tokens : j > FirstMarker /\ role[j] = "operand"}

\* C9: in a command without children, once a "--" has been scanned, every
\* token behind it that has been scanned is an operand (all of them when the
\* parse has finished), whatever it begins with, they are the end of the
\* operand vector in original order, no option has been executed from them,
\* and the "--" itself is no operand.
C9_EndOfOptions ==
    (pc \in {"scan", "done", "exit"} /\ Commands[active_cmd].subcommands = NoString
        /\ ScopeMarkers # {}) =>
        /\ \A k \in DOMAIN executed : executed[k].tok < FirstMarker
        /\ \A j \in Tokens : j > FirstMarker => role[j] \in {"operand", "unread"}
        /\ pc = "done" => \A j \in Tokens : j > FirstMarker => role[j] = "operand"
        /\ argc - 1 >= Cardinality(AfterMarker)
        /\ \A q \in 1..Cardinality(AfterMarker) :
              argv[argc - 1 - Cardinality(AfterMarker) + q] = FirstMarker + q
        /\ \A q \in 1..(argc - 1) : argv[q] # FirstMarker

\* C9's case: -- -a -- has delivered -a and the second -- as operands.
C9_Witness ==
    /\ pc = "done"
    /\ Tokens = {1, 2, 3}
    /\ role[1] = "marker"
    /\ executed = <<>>
    /\ OperandVector = <<2, 3>>
    /\ strs[2] = <<"-", "a">>
    /\ strs[3] = <<"-", "-">>

----------------------------------------------------------------------------
(* Properties of the type converter. *)

\* The token is a numeral and nothing else: a conversion is performed and it
\* ends at the end of the token.
WellFormed(s) == ParseNumeral(s).ok /\ ParseNumeral(s).end = Len(s) + 1

\* The value lies in the range of the data type.
InRange(v, t, lb) ==
    IF t \in NarrowSigned
    THEN ~IntLess(v, SignedMin(TypeBits(t, lb))) /\ ~IntLess(SignedMax(TypeBits(t, lb)), v)
    ELSE ~v.neg /\ ~IntLess(UnsignedMax(TypeBits(t, lb)), v)

\* C10 (as stated): for the integer types of 8, 16 and 32 bits strtox returns
\* 0 and stores the exact value of every numeral in the range of the type,
\* returns -1 for every numeral outside it, and returns 1 for every token that
\* is no numeral from its first to its last character.
C10_ExactOrRejected ==
    (conv.called /\ conv.type \in NarrowSigned \cup NarrowUnsigned) =>
        IF ~WellFormed(conv.str) THEN conv.ret = 1
        ELSE IF InRange(ParseNumeral(conv.str).val, conv.type, longBits)
        THEN conv.ret = 0 /\ conv.x = XInt(ParseNumeral(conv.str).val)
        ELSE conv.ret = -1

\* The token spells one of the given words in some mix of letter cases.
Spells(s, words) == \E w \in words : s \in CaseVariants(w)

\* C11: for the boolean type strtox returns 0 and stores true for every
\* letter-case variant of true, enabled, yes and on, and returns 0 and stores
\* false for every letter-case variant of false, disabled, no and off.
C11_BooleanWords ==
    (conv.called /\ conv.type = DATA_TYPE_BOOL) =>
        /\ Spells(conv.str, TrueWords) => conv.ret = 0 /\ conv.x = XBool(1)
        /\ Spells(conv.str, FalseWords) => conv.ret = 0 /\ conv.x = XBool(0)

\* C11's case: dIsAbLeD has been converted to false.
C11_Witness ==
    /\ conv.called
    /\ conv.type = DATA_TYPE_BOOL
    /\ conv.str = <<"d", "I", "s", "A", "b", "L", "e", "D">>
    /\ conv.ret = 0
    /\ conv.x = XBool(0)

\* C12 (as stated): for the boolean type a token that is none of the words but
\* a numeral in the range of int converts by its value: strtox returns 0 and
\* stores true for a nonzero value and false for zero.
C12_IntegerTruthiness ==
    (/\ conv.called
     /\ conv.type = DATA_TYPE_BOOL
     /\ ~Spells(conv.str, TrueWords \cup FalseWords)
     /\ WellFormed(conv.str)
     /\ InRange(ParseNumeral(conv.str).val, "INT", longBits)) =>
        /\ conv.ret = 0
        /\ conv.x = XBool(IF ParseNumeral(conv.str).val.mag = BigZero THEN 0 ELSE 1)

\* C13 (as stated): for the boolean type strtox returns 1 for a token that is
\* neither one of the eight words nor a numeral.
C13_NotConvertible ==
    (/\ conv.called
     /\ conv.type = DATA_TYPE_BOOL
     /\ ~Spells(conv.str, TrueWords \cup FalseWords)
     /\ ~WellFormed(conv.str)) =>
        conv.ret = 1

\* C14 (as stated): strtox reports a failure for the empty token for every
\* type but the string type.
C14_EmptyTokenFails ==
    (conv.called /\ conv.str = <<>> /\ conv.type # DATA_TYPE_STR) => conv.ret # 0

----------------------------------------------------------------------------
(* Properties of the list splitter and of the executor's list handling. *)

\* The maximal non-empty runs of characters of s that are not in delim, from
\* left to right, each as a string item; cur is the run being read.
RECURSIVE Runs(_, _, _)
Runs(s, delim, cur) ==
    IF s = <<>> THEN (IF cur = <<>> THEN <<>> ELSE <<XStr(cur)>>)
    ELSE IF StrChr(delim, Head(s)) # 0
    THEN (IF cur = <<>> THEN <<>> ELSE <<XStr(cur)>>) \o Runs(Tail(s), delim, <<>>)
    ELSE Runs(Tail(s), delim, Append(cur, Head(s)))

\* C15: strtoarr with the string type ends without an error, returns the
\* number of maximal non-empty runs of non-delimiter characters of its input
\* and leaves exactly these runs, in order, in the array; the empty input
\* gives 0.
C15_StringListItems ==
    (conv.called /\ conv.delim # NoString /\ conv.type = DATA_TYPE_STR) =>
        /\ pc # "exit"
        /\ conv.ret = Len(Runs(conv.str, conv.delim, <<>>))
        /\ conv.x.str = Runs(conv.str, conv.delim, <<>>)
        /\ conv.str = <<>> => conv.ret = 0

\* C15's case: a,b,,c has been split at commas into a, b, c.
C15_Witness ==
    /\ conv.called
    /\ conv.str = <<"a", ",", "b", ",", ",", "c">>
    /\ conv.delim = <<",">>
    /\ conv.ret = 3
    /\ conv.x.str = <<XStr(<<"a">>), XStr(<<"b">>), XStr(<<"c">>)>>

\* The side effects of kind kinds that the k-th execute_option call had.
EffectsOf(k, kinds) ==
    SelectSeq(effects, LAMBDA e : e.exec = k /\ e.kind \in kinds)

\* The k-th execute_option call was given a list argument; its items.
ListCall(k) ==
    /\ Options[executed[k].opt].arg_delim # NoString
    /\ executed[k].argtok # NULL
ListItems(k) == Runs(executed[k].arg, Options[executed[k].opt].arg_delim, <<>>)

\* What strtox returns for the i-th item of the k-th call's list.
ItemRet(k, i) ==
    Strtox(ListItems(k)[i].str, Options[executed[k].opt].arg_data_type, longBits).ret

ListError == pc = "exit" /\ err.kind \in {"ListItemNotValid", "ListItemOutOfRange"}

\* In every state: a list argument with an item that cannot be converted has
\* ended the parse in the execute_option call it was given to, with an error
\* that names the first such item and tells not valid from out of range; the
\* items were converted from left to right up to that one and no further, and
\* the call has no storage or callback effect.
C16_State ==
    /\ \A k \in DOMAIN executed :
          (ListCall(k) /\ \E i \in DOMAIN ListItems(k) : ItemRet(k, i) # 0) =>
              k = Len(executed) /\ ListError
    /\ ListError =>
          /\ ListCall(Len(executed))
          /\ Len(EffectsOf(Len(executed), {"item"})) \in DOMAIN ListItems(Len(executed))
          /\ \A i \in DOMAIN EffectsOf(Len(executed), {"item"}) :
                /\ EffectsOf(Len(executed), {"item"})[i].val = ListItems(Len(executed))[i]
                /\ (i < Len(EffectsOf(Len(executed), {"item"})))
                       = (ItemRet(Len(executed), i) = 0)
          /\ err.kind = (IF ItemRet(Len(executed),
                                    Len(EffectsOf(Len(executed), {"item"}))) = 1
                         THEN "ListItemNotValid" ELSE "ListItemOutOfRange")
          /\ err.info = <<ListItems(Len(executed))
                            [Len(EffectsOf(Len(executed), {"item"}))].str>>
          /\ EffectsOf(Len(executed), {"storage", "callback"}) = <<>>

\* In every step that ends in such an error: the storage destinations are
\* left as they were and no callback is invoked.
C16_Step == (ListError' /\ ~ListError) => (storage' = storage /\ calls' = calls)

\* C16: when a list argument is converted, the items are converted from left
\* to right and the first item that cannot be converted ends the parse with
\* an error that names it and tells not valid from out of range; the items to
\* its right are not converted, the storage destination is not written and
\* the callback is not invoked.
C16_FirstBadItemAborts == []C16_State /\ [][C16_Step]_vars

\* C16's case: --list=5,300,x has ended the parse at 300, out of range; x was
\* not converted.
C16_Witness ==
    /\ ListError
    /\ err.kind = "ListItemOutOfRange"
    /\ err.info = <<(<<"3", "0", "0">>)>>
    /\ executed[Len(executed)].arg = <<"5", ",", "3", "0", "0", ",", "x">>
    /\ Len(EffectsOf(Len(executed), {"item"})) = 2

\* The place of a side effect in the order flag, storage, callback.
EffectOrder(kind) ==
    CASE kind = "flag" -> 1
      [] kind = "storage" -> 2
      [] kind = "callback" -> 3

\* The number of execute_option calls for the option id.
Occurrences(id) == Cardinality({k \in DOMAIN executed : executed[k].opt = id})

\* C17: the flag, storage and callback effects of one execute_option call
\* come in this order and each at most once; the flag is mutated in every call
\* for an option with a flag, with or without an argument; after a successful
\* parse an increment flag holds the number of the option's occurrences and a
\* decrement flag its negative.
C17_EffectOrder ==
    /\ \A k \in DOMAIN executed :
          /\ \A i, j \in DOMAIN EffectsOf(k, {"flag", "storage", "callback"}) :
                i < j => EffectOrder(EffectsOf(k, {"flag", "storage", "callback"})[i].kind)
                           < EffectOrder(EffectsOf(k, {"flag", "storage", "callback"})[j].kind)
          /\ Options[executed[k].opt].flag # "none" => Len(EffectsOf(k, {"flag"})) = 1
    /\ pc = "done" =>
          /\ flags["fv"] = Occurrences("v")
          /\ flags["fq"] = 0 - Occurrences("q")

\* C17's case: --verbose -v has left 2 in the counter.
C17_Witness ==
    /\ pc = "done"
    /\ flags["fv"] = 2
    /\ \E k \in DOMAIN executed : executed[k].opt = "v" /\ executed[k].c = 0
    /\ \E k \in DOMAIN executed : executed[k].opt = "v" /\ executed[k].c > 0

\* C18 (as stated): a callback of style OARG_ARRAY is called with the
\* non-empty items of the argument as the user gave it, unconverted and in
\* order, and with their number.
C18_RawItems ==
    \A i \in DOMAIN effects :
        (/\ effects[i].kind = "callback"
         /\ Options[executed[effects[i].exec].opt].function_type
               = "FUNCTION_TYPE_OARG_ARRAY"
         /\ ListCall(effects[i].exec)) =>
            effects[i].val.str = ListItems(effects[i].exec)

\* C19 (as stated): when the conversion of an option's argument has failed,
\* the call had none of its side effects: no flag mutation, no storage write,
\* no callback.
C19_NoPartialApplication ==
    (pc = "exit" /\ err.kind \in {"ArgumentNotValid", "ValueOutOfRange",
                                  "ListItemNotValid", "ListItemOutOfRange"}) =>
        EffectsOf(Len(executed), {"flag", "storage", "callback"}) = <<>>

\* The execute_option call that allocated block b has returned.
Returned(b) == ~(ListError /\ heap[b].exec = Len(executed))

\* The position of the first effect of the k-th call that is of kind kind and
\* value val, 0 if there is none.
EffectAt(k, kind, val) ==
    IF \E i \in DOMAIN effects :
          effects[i].exec = k /\ effects[i].kind = kind /\ effects[i].val = val
    THEN CHOOSE i \in DOMAIN effects :
            /\ effects[i].exec = k /\ effects[i].kind = kind /\ effects[i].val = val
            /\ \A j \in 1..(i - 1) :
                  ~(effects[j].exec = k /\ effects[j].kind = kind /\ effects[j].val = val)
    ELSE 0

\* C20: no block is freed twice.  Once execute_option has returned, the list
\* array of an option without a storage destination has been freed once, after
\* the callback that was given its items; a list array whose pointer was
\* stored is not freed; the array of raw strings and the copy of the argument
\* have been freed once.
C20_ListMemory ==
    \A b \in DOMAIN heap :
        /\ heap[b].frees <= 1
        /\ Returned(b) =>
              /\ heap[b].kind \in {"raw", "backup"} =>
                    heap[b].frees = 1 /\ heap[b].held = "none"
              /\ heap[b].kind = "list" =>
                    /\ (heap[b].held = "none") = (heap[b].frees = 1)
                    /\ heap[b].held # "none" =>
                          heap[b].held = Options[executed[heap[b].exec].opt].arg_storage
                    /\ Options[executed[heap[b].exec].opt].arg_storage = "none" =>
                          /\ heap[b].frees = 1
                          /\ \A i \in DOMAIN effects :
                                (/\ effects[i].exec = heap[b].exec
                                 /\ effects[i].kind = "callback"
                                 /\ effects[i].val.str # <<>>) =>
                                    i < EffectAt(heap[b].exec, "free", XSize(b))

\* C20's case: a parse of -ma;;b --keep=a,b --raw=a,b,c has ended: the list of
\* -m, the copy of --keep's argument, the list and the raw array of --raw are
\* freed, the list of --keep is held by its storage destination.
C20_Witness ==
    /\ pc = "done"
    /\ Len(heap) = 5
    /\ \E b \in DOMAIN heap : heap[b].kind = "list" /\ heap[b].held = "sk"
                               /\ heap[b].frees = 0
    /\ \E b \in DOMAIN heap : heap[b].kind = "backup" /\ heap[b].frees = 1
    /\ \E b \in DOMAIN heap : heap[b].kind = "raw" /\ heap[b].frees = 1
    /\ \E b \in DOMAIN heap : heap[b].kind = "list" /\ heap[b].held = "none"
                               /\ heap[b].frees = 1

----------------------------------------------------------------------------
(* The parse cursor and the calls a callback makes to move it. *)

\* Every call of the given operation moved the index by d or, returning
\* none, left it where it was.
MovedOrNone(op, d) ==
    \A k \in DOMAIN api_calls :
        api_calls[k].op = op =>
            \/ api_calls[k].to = api_calls[k].from + d
            \/ api_calls[k].to = api_calls[k].from /\ api_calls[k].ret = NULL

\* C21 (as stated): optparse_shift moves the scan index forward by exactly one
\* or, returning none, leaves it unchanged, and in every reachable state the
\* scan index is at most the index of the argument vector's null terminator
\* (here: of the terminator slot the caller allocated, the last of the array).
C21_IndexWithinVector ==
    /\ MovedOrNone("shift", 1)
    /\ args_index <= ArgvEnd(argv)

\* C22: optparse_unshift, called with the scan index greater than 0 while a
\* parse has started, moves the index back by exactly one and returns the
\* token at the new index, argv[0] included; called with the index 0 or
\* before any parse it returns none and leaves the index unchanged; the index
\* is never negative.
C22_Unshift ==
    /\ args_index >= 0
    /\ \A k \in DOMAIN api_calls :
          api_calls[k].op = "unshift" =>
              IF api_calls[k].args # NULL /\ api_calls[k].from > 0
              THEN /\ api_calls[k].to = api_calls[k].from - 1
                   /\ api_calls[k].to \in DOMAIN api_calls[k].argv =>
                          api_calls[k].ret = api_calls[k].argv[api_calls[k].to]
              ELSE /\ api_calls[k].to = api_calls[k].from
                   /\ api_calls[k].ret = NULL

\* C22's case: unshift was called before the parse, then by the callbacks of
\* -uu from index 1 onto argv[0] and at index 0.
C22_Witness ==
    /\ \E k \in DOMAIN api_calls :
          /\ api_calls[k].op = "unshift" /\ api_calls[k].args = NULL
          /\ api_calls[k].ret = NULL
    /\ \E k \in DOMAIN api_calls :
          /\ api_calls[k].op = "unshift" /\ api_calls[k].from = 1
          /\ api_calls[k].to = 0 /\ api_calls[k].ret = 0
    /\ \E k \in DOMAIN api_calls :
          /\ api_calls[k].op = "unshift" /\ api_calls[k].args # NULL
          /\ api_calls[k].from = 0 /\ api_calls[k].to = 0
          /\ api_calls[k].ret = NULL

----------------------------------------------------------------------------
(* Fatal conditions. *)

FatalKinds ==
    {"UnknownOption", "UnknownCommand", "RequiresArgument", "UnwantedArgument",
     "ArgumentNotValid", "ValueOutOfRange", "ListItemNotValid", "ListItemOutOfRange",
     "MutuallyExclusive", "OutOfMemory"}

\* The run has exited and its exit is the last thing it did: no effect follows
\* the exit, no execute_option call was entered after it, and the tokens behind
\* the scan index are as they were given.
C23_State ==
    /\ err.kind # "none" <=> pc = "exit"
    /\ pc = "exit" =>
          /\ err.kind \in FatalKinds
          /\ effects # <<>>
          /\ effects[Len(effects)].kind = "exit"
          /\ effects[Len(effects)].exec = Len(executed)
          /\ \A i \in 1..(Len(effects) - 1) : effects[i].kind # "exit"
          /\ \A i \in DOMAIN argv :
                (i > args_index /\ argv[i] \in Tokens) =>
                    /\ role[argv[i]] = "unread"
                    /\ strs[argv[i]] = given[argv[i]]

\* A step that exits invokes no terminal callback, and nothing changes after
\* the exit.
C23_Step ==
    /\ pc # "exit"
    /\ pc' = "exit" => cmd_calls' = cmd_calls

\* C23: every fatal condition (unknown option, unknown command, missing
\* required argument, unwanted argument, not convertible, out of range, mutual
\* exclusion, out of memory) ends the run with a failure status at the point
\* of detection: no further option side effect is applied, no further token is
\* scanned and no terminal callback is invoked.
C23_FatalEndsTheRun == []C23_State /\ [][C23_Step]_vars

\* C23's case: malloc returned NULL for the list of -m after -x was executed,
\* with a token left behind the one the run ended on.
C23_Witness ==
    /\ pc = "exit"
    /\ err.kind = "OutOfMemory"
    /\ flags["fx"] = 1
    /\ Len(executed) = 2
    /\ \E i \in Tokens : role[i] = "unread"

----------------------------------------------------------------------------
(* More than one parse in a process. *)

\* C24 (as stated): at the start of every top-level optparse_parse call no
\* group of mutually exclusive options has a recorded first-seen option, so an
\* option seen in an earlier call never causes a mutual-exclusion error in a
\* later one.
C24_TablePerInvocation ==
    [][parses' # parses =>
          \A g \in DOMAIN exclusive_opts : exclusive_opts'[g] = "none"]_vars

----------------------------------------------------------------------------
(* Help. *)

\* C25: printing help in no-exit mode twice in succession for the same
\* command prints the same text twice: the text depends only on the command
\* descriptor and on its chain of parents, and the parent links and tree depth
\* set by the first print do not change what the second prints.
C25_HelpTwice ==
    \A k \in DOMAIN help.printed :
        /\ help.printed[k].text.names[Len(help.printed[k].text.names)]
              = Commands[help.printed[k].cmd].name
        /\ help.printed[k].text.names[1] = Commands[optparse_main_cmd].name
        /\ (k > 1 /\ help.printed[k - 1].cmd = help.printed[k].cmd) =>
              help.printed[k - 1].text = help.printed[k].text

\* C25's case: the help of add, reached from prog through remote, was printed
\* twice in succession.
C25_Witness ==
    /\ Len(help.printed) = 2
    /\ help.printed[1].cmd = "add"
    /\ help.printed[2].cmd = "add"
    /\ help.printed[1].text.names = <<Commands["prog"].name, Commands["remote"].name,
                                      Commands["add"].name>>

----------------------------------------------------------------------------
(* The command tree. *)

\* The command whose scope contains token i: the one the subcommand names to
\* the left of i lead to from the main command.
Scope(i) ==
    Descend(optparse_main_cmd, Ascending({j \in SubcommandTokens : j < i}))

\* The option table of a command as a set of descriptors.
TableOf(cmd) ==
    IF Commands[cmd].options = NoString THEN {}
    ELSE {Options[Commands[cmd].options[q]] : q \in DOMAIN Commands[cmd].options}

\* The long name token i asks for: its text behind "--" up to the first '='.
LongNameOf(i) ==
    IF StrChr(SubSeq(given[i], 3, Len(given[i])), "=") > 0
    THEN SubSeq(given[i], 3, StrChr(SubSeq(given[i], 3, Len(given[i])), "=") + 1)
    ELSE SubSeq(given[i], 3, Len(given[i]))

\* The name token i asks for first is in no descriptor of the table T.
Undeclared(i, T) ==
    IF given[i][2] = "-"
    THEN \A o \in T : o.long_name # LongNameOf(i)
    ELSE \A o \in T : o.short_name # given[i][2]

\* C26: every option is executed from the table of the command whose scope
\* contains its token, also when the token stands left of a subcommand name;
\* a token scanned as an option whose name is not in that table ends the parse
\* with the unknown-option error and executes nothing, whichever other
\* command declares the name.
C26_OptionsOfTheActiveCommand ==
    /\ \A k \in DOMAIN executed :
          executed[k].tok \in Tokens
          /\ Options[executed[k].opt] \in TableOf(Scope(executed[k].tok))
    /\ \A i \in Tokens :
          (role[i] = "option" /\ Len(given[i]) >= 2 /\ Undeclared(i, TableOf(Scope(i)))) =>
              /\ pc = "exit"
              /\ err.kind = "UnknownOption"
              /\ ~ExecutedAsOption(i)

\* C26's case: under prog, -h was executed from prog's table, remote was
\* entered, and the second -h was refused there because remote declares none.
C26_Witness ==
    /\ optparse_main_cmd = "prog"
    /\ active_cmd = "remote"
    /\ 3 \in Tokens
    /\ Len(executed) = 1 /\ executed[1].opt = "h" /\ executed[1].tok = 1
    /\ role[2] = "subcmd"
    /\ role[3] = "option" /\ given[3] = <<"-", "h">>
    /\ err.kind = "UnknownOption"

\* C27 (as stated): once a stand-alone "--" has been scanned, no later token
\* is executed as an option or matched as a subcommand name, in any command,
\* and when the parse has finished every later token is an operand.
C27_EndOfOptionsIsPermanent ==
    \A i \in Tokens : \A j \in Tokens :
        (role[i] = "marker" /\ j > i) =>
            /\ ~ExecutedAsOption(j)
            /\ role[j] \notin {"option", "subcmd"}
            /\ pc = "done" => role[j] = "operand"

----------------------------------------------------------------------------
(* Tokens taken by callbacks. *)

\* No callback of the run has called optparse_unshift.
NeverUnshifted == \A k \in DOMAIN api_calls : api_calls[k].op # "unshift"

\* Every token optparse_shift returned to a callback is left to that callback.
ShiftedIsConsumed ==
    \A k \in DOMAIN api_calls :
        (api_calls[k].op = "shift" /\ api_calls[k].ret \in Tokens) =>
            /\ role[api_calls[k].ret] = "shifted"
            /\ ~ExecutedAsOption(api_calls[k].ret)
            /\ api_calls[k].ret \notin {argv[p] : p \in 1..(argc - 1)}

\* After optparse_shift has returned none on the terminator, the scan index is
\* never behind the terminator.
StopsAtTerminator ==
    \A k \in DOMAIN api_calls :
        (api_calls[k].op = "shift" /\ api_calls[k].args # NULL
         /\ api_calls[k].ret = NULL) => args_index <= api_calls[k].to

\* C28 (as stated): a token returned by optparse_shift to an option callback
\* is consumed by it: the walker resumes behind it, and the token is neither
\* executed as an option, nor matched as a subcommand name, nor added to the
\* operands; if optparse_shift reached the terminator, the walker stops
\* without stepping past it.
C28_ShiftConsumes ==
    NeverUnshifted => (ShiftedIsConsumed /\ StopsAtTerminator)

\* C29 (as stated): optparse_unshift undoes optparse_shift: a call of
\* optparse_shift followed by a call of optparse_unshift during a parse leaves
\* the scan index as it was before the two calls, also when optparse_shift
\* returned none.
C29_UnshiftUndoesShift ==
    \A k \in DOMAIN api_calls :
        (/\ k < Len(api_calls)
         /\ api_calls[k].op = "shift"
         /\ api_calls[k + 1].op = "unshift"
         /\ api_calls[k].args # NULL
         /\ api_calls[k + 1].from = api_calls[k].to) =>
            api_calls[k + 1].to = api_calls[k].from

----------------------------------------------------------------------------
(* Negative numerals and unsigned types. *)

\* C30 (as stated): for every unsigned integer type, the native unsigned long
\* and unsigned long long and the 64-bit type included, strtox returns -1 for
\* a numeral that denotes a negative number and stores no value wrapped
\* around modulo 2^w.
C30_NegativeIsOutOfRange ==
    (/\ conv.called
     /\ conv.type \in NarrowUnsigned \cup WideUnsigned
     /\ WellFormed(conv.str)
     /\ IntLess(ParseNumeral(conv.str).val, IntZero)) =>
        /\ conv.ret = -1
        /\ conv.x.tag # "int"

----------------------------------------------------------------------------
(* Raw-string callbacks. *)

\* The argument of an executed option as the user gave it.
GivenArg(e) == IF HadAttached(e) THEN AttachedText(e) ELSE given[e.argtok]

\* C31: a callback of the raw-string style is called with the option's
\* argument exactly as it was given; for a list option that is the whole
\* string with its delimiters, although the splitter has overwritten
\* delimiters in the token before the callback runs.
C31_RawStringCallback ==
    \A i \in DOMAIN effects :
        (/\ effects[i].kind = "callback"
         /\ Options[executed[effects[i].exec].opt].function_type = "FUNCTION_TYPE_OARG"
         /\ executed[effects[i].exec].arg # NoString) =>
            effects[i].val = XStr(GivenArg(executed[effects[i].exec]))

\* C31's case: --keep=a,b has been executed: the token was cut at its comma
\* and the callback was called with a,b.
C31_Witness ==
    \E i \in DOMAIN effects :
        /\ effects[i].kind = "callback"
        /\ executed[effects[i].exec].opt = "k"
        /\ effects[i].val = XStr(<<"a", ",", "b">>)
        /\ given[executed[effects[i].exec].tok]
              = <<"-", "-", "k", "e", "e", "p", "=", "a", ",", "b">>
        /\ strs[executed[effects[i].exec].tok][9] = NUL

----------------------------------------------------------------------------
(* One grouped option given more than once. *)

\* C32 (as stated): the mutual-exclusion error is raised only for two
\* different descriptors of one group; one grouped option given several times
\* is accepted and executed once per occurrence.
C32_SameOptionTwice ==
    /\ err.kind = "MutuallyExclusive" => err.info[1] # err.info[2]
    /\ \A i \in Tokens :
          (/\ pc = "done"
           /\ role[i] = "option"
           /\ given[i] \in {<<"-", "x">>, <<"-", "-", "e", "x">>}) =>
              \E k \in DOMAIN executed : executed[k].tok = i /\ executed[k].opt = "x"

----------------------------------------------------------------------------
(* The shape of a detached option-argument. *)

\* C33: an option that requires an argument and has no text attached takes
\* the token behind the cursor as its value, whatever the token looks like
\* (an option, the "--" marker, a subcommand name): the value is the token's
\* text as given, and the token is never scanned as an option, a marker, a
\* subcommand or an operand.  When no callback moved the cursor, that token
\* is the one behind the option's own token.
C33_Entry(e) ==
    (RequiresArg(Options[e.opt]) /\ ~HadAttached(e) /\ e.argtok \in Tokens) =>
        /\ e.arg = given[e.argtok]
        /\ role[e.argtok] = "optarg"
        /\ ~ExecutedAsOption(e.argtok)
        /\ api_calls = <<>> => e.argtok = e.tok + 1

C33_NextTokenVerbatim ==
    \A k \in DOMAIN executed : C33_Entry(executed[k])

\* C33's case: -b of prog takes the name of prog's child remote as its value,
\* and the token behind it selects the subcommand.
C33_Witness ==
    /\ pc = "done"
    /\ api_calls = <<>>
    /\ optparse_main_cmd = "prog"
    /\ 3 \in Tokens
    /\ Len(executed) >= 1
    /\ executed[1].opt = "b" /\ executed[1].tok = 1 /\ executed[1].argtok = 2
    /\ given[2] = Commands["remote"].name
    /\ storage["sb"] = XStr(given[2])
    /\ role[3] = "subcmd"

----------------------------------------------------------------------------
(* Short-option clusters. *)

\* The tokens the walker hands to execute_short_option: they begin with '-'
\* and have no second '-'.
IsCluster(t) == t[1] = "-" /\ (Len(t) = 1 \/ t[2] # "-")

\* C34 (as stated): every token scanned as a short-option cluster executes at
\* least one option or aborts the parse with a fatal error; a token that is
\* the single character '-' is never silently dropped, whether the active
\* command has an option table or not.
C34_ClusterActsOrAborts ==
    \A i \in Tokens :
        (role[i] = "option" /\ IsCluster(given[i])) =>
            \/ ExecutedAsOption(i)
            \/ pc = "exit"

----------------------------------------------------------------------------
(* The specification of a typed option with an optional argument: -w, --wide
   of add takes [N] of type INT8 and has a callback of the automatic style.
   execute_option's conv_arg has no initialiser, so on entry it holds any
   value; three of them are taken here. *)

Indeterminate == {Strtox(n, "INT8", 64).x : n \in {<<"0">>, <<"5">>, <<"-", "1">>}}

FamWide ==
    {<<"-", "w">>,
     <<"-", "w", "5">>,
     <<"-", "-", "w", "i", "d", "e">>,
     <<"-", "-", "w", "i", "d", "e", "=", "5">>,
     <<"-", "a", "w">>,
     <<"-", "t">>,
     <<"5">>,
     <<"-", "-">>,
     <<"a", "d", "d">>}

InitWide ==
    /\ longBits = 64
    /\ memory = Plenty
    /\ conv_arg \in Indeterminate
    /\ help = HelpIdle
    /\ conv = ConvIdle
    /\ \E toks \in ArgLists(FamWide) : ParserIdle(toks)

SpecWide == InitWide /\ [][Next]_vars

\* The callbacks that take one typed value that is not a string.
TypedSingle(opt) ==
    /\ CallStyle(opt) = "FUNCTION_TYPE_TARG"
    /\ opt.arg_data_type \notin {DATA_TYPE_NONE, DATA_TYPE_STR}

\* C35 (as stated): a callback that takes a single typed value of a type other
\* than string is only called with the value strtox converted from the
\* argument of the occurrence it is called for; an option with an optional
\* argument that is given without attached text does not pass conv_arg
\* unassigned.
C35_Entry(e, val) ==
    TypedSingle(Options[e.opt]) =>
        /\ e.arg # NoString
        /\ e.argtok \in Tokens
        /\ val = Strtox(GivenArg(e), Options[e.opt].arg_data_type, longBits).x

C35_TypedValueIsConverted ==
    \A i \in DOMAIN effects :
        effects[i].kind = "callback" => C35_Entry(executed[effects[i].exec], effects[i].val)

----------------------------------------------------------------------------
(* The compaction of argv in place. *)

\* No callback has called optparse_unshift().
NoRetreat == \A k \in DOMAIN api_calls : api_calls[k].op # "unshift"

\* The walker will come to slot p: no slot from the scan index to p is NULL.
Ahead(p) ==
    /\ p >= args_index
    /\ p <= ArgvEnd(argv)
    /\ \A q \in args_index..p : argv[q] # NULL

----------------------------------------------------------------------------
(* Termination.  The program is sequential: it calls optparse_parse and then
   takes its next step as long as it has one.  The second is weak fairness of
   Next, written without ENABLED: a behaviour of [][Next]_vars either changes
   the state again and again, or is again and again in a state where no step
   is left, which is a state after the return or the exit, or one where the
   model's bound on the executed options stops the walker in front of a
   token. *)

\* The longest argument vector of this specification: short enough for every
\* option of every token to be executed within MaxExecuted.
MaxVector == 2

FamTermination ==
    {<<"-", "s">>,
     <<"-", "u">>,
     <<"-", "p">>,
     <<"-", "s", "p">>,
     <<"-", "s", "u">>,
     <<"-", "s", "b">>,
     <<"-", "a">>,
     <<"-", "-", "e", "x">>,
     <<"-", "-">>,
     <<"a", "d", "d">>,
     <<"W">>}

InitTermination ==
    /\ longBits = 64
    /\ memory = Plenty
    /\ conv_arg = XUninit
    /\ help = HelpIdle
    /\ conv = ConvIdle
    /\ \E k \in 0..MaxVector : \E toks \in [1..k -> FamTermination] : ParserIdle(toks)

Halted ==
    \/ pc \in {"done", "exit"}
    \/ pc = "scan" /\ Len(executed) >= MaxExecuted /\ CursorToken # NULL

WalkerKeepsStepping == []<>Halted \/ []<><<TRUE>>_vars

SpecTermination ==
    InitTermination /\ [][Next]_vars /\ WF_vars(optparse_parse) /\ WalkerKeepsStepping

\* The call k of the cursor API is a retreat that undoes no advance: the call
\* before it is not an optparse_shift() that moved the index to where the
\* retreat starts.
Unpaired(k) ==
    /\ api_calls[k].op = "unshift"
    /\ \/ k = 1
       \/ api_calls[k - 1].op # "shift"
       \/ api_calls[k - 1].to # api_calls[k - 1].from + 1
       \/ api_calls[k - 1].to # api_calls[k].from

UnpairedRetreat == \E k \in DOMAIN api_calls : Unpaired(k)

\* The index of the terminator of the vector the walker is on.
FirstNull(a) == CHOOSE p \in 1..ArgvEnd(a) : a[p] = NULL /\ \A q \in 1..(p - 1) : a[q] # NULL

\* A retreat was called and no advance had moved the index before it.
BareRetreat ==
    \E k \in DOMAIN api_calls :
        /\ api_calls[k].op = "unshift"
        /\ \A j \in 1..(k - 1) :
              ~(api_calls[j].op = "shift" /\ api_calls[j].to = api_calls[j].from + 1)

\* A step of the walker inside one command moves the scan index up; the
\* descent into a subcommand goes on with a shorter vector.
WalkerAdvances ==
    IF active_cmd' = active_cmd
    THEN args_index' > args_index
    ELSE FirstNull(argv') < FirstNull(argv)

C37_Step == (pc = "scan" /\ pc' = "scan" /\ ~UnpairedRetreat') => WalkerAdvances

\* C37 (as stated): when no callback calls optparse_unshift() without an
\* optparse_shift() that moved the index somewhere before it, the parse ends,
\* each step of the walker raises the scan index, and each descent into a
\* subcommand goes on with a strictly shorter vector.
C37_AsStated ==
    /\ <>(pc \in {"done", "exit"} \/ BareRetreat)
    /\ [][(pc = "scan" /\ pc' = "scan" /\ ~BareRetreat') => WalkerAdvances]_vars

\* C37 (amended): when every optparse_unshift() undoes the optparse_shift()
\* called directly before it, which moved the index, the parse ends, with the
\* command's function called or with a fatal error; each step of the walker
\* raises the scan index, and each descent into a subcommand goes on with a
\* strictly shorter vector.
C37_ParseTerminates ==
    /\ <>(pc \in {"done", "exit"} \/ UnpairedRetreat)
    /\ [][C37_Step]_vars

\* C37's case: a parse ended after a callback looked at the next token and
\* stepped back (-p), and after advances of another callback (-s).
C37_Witness ==
    /\ pc = "done"
    /\ ~UnpairedRetreat
    /\ \E k \in DOMAIN api_calls : api_calls[k].op = "unshift"
    /\ \E e \in DOMAIN executed : executed[e].opt = "s"
    /\ Len(cmd_calls) = 1
====
